---- MODULE Spec2Model ----
(***************************************************************************)
(* Model of the incremental graph maintenance engine of the backend:       *)
(* GraphService (the in-memory graph store, depth calculation, tree        *)
(* layout, merge) and the handlers of server.ts that fold oracle-proposed  *)
(* deltas into the store (process-transcript, updateGraph function call,   *)
(* process-text, finalize-graph, merge, remove, restructure, clear).       *)
(*                                                                         *)
(* Node ids are positive integers handed out by a counter (randomUUID);    *)
(* an edge endpoint that is not the id of any node ever created is 0 or a  *)
(* negative integer (an identifier invented by the oracle, or a label that *)
(* did not resolve to an id); a client may also give such an identifier to *)
(* a node it sends in a restructure request.                               *)
(***************************************************************************)
EXTENDS Integers, Sequences, FiniteSets, TLC

\* ------------------------------------------------------------------ bounds
MaxNodes      == 3   \* nodes the store may hold
MaxEdges      == 3   \* edges the store may hold
MaxNodeId     == 4   \* node ids handed out in one run
MaxEdgeId     == 3   \* edge ids handed out in one run
MaxDelta      == 2   \* proposed nodes in one delta
MaxDeltaEdges == 1   \* proposed edges in one delta
MaxDeltaGraphNodes == 2   \* nodes the store may hold while deltas are applied
MaxDeltaGraphEdges == 1   \* edges the store may hold while deltas are applied
MaxSteps      == 4   \* handler invocations in one run of the store handlers
MaxDeltaSteps == 3   \* handler invocations in one run of the delta handlers
MaxBatch      == 3   \* proposed nodes in one delta of a run of node-only deltas
MaxBatchNodes == 3   \* nodes the store may hold in a run of node-only deltas
MaxBatchSteps == 2   \* handler invocations in a run of node-only deltas
MaxEdgeEnds   == 2   \* endpoint identifiers 0..MaxEdgeEnds in a run of addEdge calls
MaxEdgeCalls  == 3   \* addEdge calls in one such run
MaxClearNodes == 2   \* nodes the store may hold in a run with clear operations
MaxClearEdges == 1   \* edges the store may hold in a run with clear operations
MaxClearSteps == 4   \* invocations in a run with clear operations
MaxMessages   == 1   \* 'User:' / 'AI:' messages in the text of one process-transcript
MaxRefineNodes == 2  \* nodes the store may hold in a run with refinements
MaxRefineEdges == 2  \* edges the store may hold in a run with refinements
MaxRefineSteps == 4  \* invocations in a run with refinements
MaxRefineEntries == 1 \* entries in each of the three lists of one refinement
MaxLoopNodes  == 2   \* nodes the store may hold in a run of interleaved handlers
MaxLoopEdges  == 1   \* edges the store may hold in a run of interleaved handlers
MaxLoopSteps  == 5   \* dispatches in a run of interleaved handlers
MaxInflight   == 2   \* process-transcript invocations waiting for the oracle
MaxLabelsNodes == 3  \* nodes the store may hold in a run of labelled deltas
MaxLabelsEdges == 1  \* edges the store may hold in a run of labelled deltas
MaxLabelsSteps == 2  \* invocations in a run of labelled deltas
MaxLabelsDelta == 2  \* nodes one labelled delta may propose
MaxMergeNodes == 3   \* nodes the store may hold in a run of deltas and merges
MaxMergeEdges == 2   \* edges the store may hold in a run of deltas and merges
MaxMergeSteps == 5   \* invocations in a run of deltas and merges
MaxHubNodes == 4     \* nodes of the graphs the fallback is applied to
MaxHubEdges == 1     \* edges of the graphs the fallback is applied to
MaxGridNodes == 4    \* nodes the store may hold in a run of grid placements
MaxGridSteps == 6    \* addNode and removeNode calls in a run of grid placements
MaxSpiralNodes == 2  \* nodes added to the initial graph in a run of spiral placements
MaxStaleNodes == 2   \* nodes the store may hold in a run with a waiting finalize pass
MaxStaleEdges == 2   \* edges the store may hold in such a run
MaxStaleSteps == 4   \* invocations in such a run
MaxLookupNodes == 2  \* nodes the store may hold in a run of lookups by id
MaxLookupEdges == 2  \* edges the store may hold in a run of lookups by id
MaxLookupSteps == 4  \* invocations in a run of lookups by id
MaxLayoutNodes == 3  \* nodes the store may hold in a run with layout calls
MaxLayoutEdges == 2  \* edges the store may hold in a run with layout calls
MaxLayoutSteps == 6  \* invocations in a run with layout calls
MaxFinalizeNodes == 2   \* nodes the store may hold in a run with the finalize pass
MaxFinalizeEdges == 2   \* edges the store may hold in a run with the finalize pass
MaxFinalizeSteps == 4   \* handler invocations in one run with the finalize pass
MaxLabelLen   == 3   \* tokens in a label given to the duplicate test
MaxDepthNodes == 2   \* nodes of the graphs given to the depth calculation
MaxDepthEdges == 3   \* edges of the graphs given to the depth calculation
MaxChain      == 8   \* nodes of the chain graphs given to the depth calculation
MaxDagNodes   == 3   \* nodes of the acyclic graphs given to the depth calculation
MaxDagEdges   == 4   \* edges of the acyclic graphs given to the depth calculation

\* ------------------------------------------------------- program constants
TREE_VERTICAL_SPACING   == 200
TREE_HORIZONTAL_SPACING == 350
TREE_ROOT_Y             == 50
TREE_ROOT_X_START       == 600
MAX_TREE_DEPTH          == 6

Ghost == 0           \* an identifier that the store never hands out

Min(a, b) == IF a < b THEN a ELSE b
Max(a, b) == IF a > b THEN a ELSE b

Range(s) == {s[i] : i \in 1..Len(s)}

\* --------------------------------------------------------------- variables
VARIABLES
    nodes,        \* GraphService.graph.nodes, in insertion order
    edges,        \* GraphService.graph.edges, in insertion order
    nextNodeId,   \* the next id randomUUID() gives a node
    nextEdgeId,   \* the next id addEdge gives an edge
    last,         \* the operation that produced the current state, and its result
    steps,        \* handler invocations so far
    transcriptHistory, \* GraphService.transcriptHistory: [speaker, age] per entry,
                       \* age = the time since the entry was stored
    eventLoop          \* the OpenRouter service and its chat calls, the
                       \* process-transcript invocations that wait for the
                       \* oracle, and the one whose continuation is executing

vars == <<nodes, edges, nextNodeId, nextEdgeId, last, steps, transcriptHistory,
          eventLoop>>

NodeIds(N) == {N[i].id : i \in 1..Len(N)}

\* ============================================================ GraphService

\* ---- calculateNodeDepth: the visited set is one object shared by the whole
\* ---- recursion (it is passed by reference to every parent call).
RECURSIVE DepthRec(_, _, _)
RECURSIVE ParentDepths(_, _, _, _)

\* (variant) the depth of a node below its parents, without the cap.
childDepthUncapped(maxParentDepth) == maxParentDepth + 1

\* Math.min(Math.max(...parentDepths) + 1, MAX_TREE_DEPTH)
childDepth(maxParentDepth) == Min(maxParentDepth + 1, MAX_TREE_DEPTH)

\* Result: d = returned depth, vis = the visited set after the call,
\* calls = number of invocations made by the call (itself included).
DepthRec(E, nodeId, visited) ==
    IF nodeId \in visited
    THEN [d |-> 0, vis |-> visited, calls |-> 1]
    ELSE LET v1          == visited \cup {nodeId}
             parentEdges == SelectSeq(E, LAMBDA e : e.target = nodeId)
         IN  IF Len(parentEdges) = 0
             THEN [d |-> 0, vis |-> v1, calls |-> 1]
             ELSE LET r == ParentDepths(E, parentEdges, 1, v1)
                  IN  [d     |-> childDepth(r.max),
                       vis   |-> r.vis,
                       calls |-> r.calls + 1]

\* parentEdges.map(edge => calculateNodeDepth(edge.source, visited)), then
\* Math.max over the results, from index i on.
ParentDepths(E, parentEdges, i, visited) ==
    LET r == DepthRec(E, parentEdges[i].source, visited)
    IN  IF i = Len(parentEdges)
        THEN [max |-> r.d, vis |-> r.vis, calls |-> r.calls]
        ELSE LET rest == ParentDepths(E, parentEdges, i + 1, r.vis)
             IN  [max   |-> Max(r.d, rest.max),
                  vis   |-> rest.vis,
                  calls |-> r.calls + rest.calls]

calculateNodeDepth(E, nodeId) == DepthRec(E, nodeId, {}).d

\* A layout that spreads the siblings from each node's current x instead of
\* from startX.
recalculateTreeLayoutFromCurrent(N, E) ==
    LET depth == [i \in 1..Len(N) |-> calculateNodeDepth(E, N[i].id)]
        index(i) == Cardinality({j \in 1..(i - 1) : depth[j] = depth[i]})
    IN  [i \in 1..Len(N) |->
            [N[i] EXCEPT !.x = N[i].x + index(i) * TREE_HORIZONTAL_SPACING,
                         !.y = TREE_ROOT_Y + depth[i] * TREE_VERTICAL_SPACING]]

\* (variant) a layout that puts every node of a row at the row's startX.
recalculateTreeLayoutStacked(N, E) ==
    LET depth == [i \in 1..Len(N) |-> calculateNodeDepth(E, N[i].id)]
        totalNodes(d) == Cardinality({j \in 1..Len(N) : depth[j] = d})
        totalWidth(d) == Max(totalNodes(d) * TREE_HORIZONTAL_SPACING, 400)
        startX(d)     == TREE_ROOT_X_START - (totalWidth(d) \div 2)
    IN  [i \in 1..Len(N) |->
            [N[i] EXCEPT !.x = startX(depth[i]),
                         !.y = TREE_ROOT_Y + depth[i] * TREE_VERTICAL_SPACING]]

\* A layout whose rows have no minimum width: a row is centred on its own
\* width however narrow it is.
recalculateTreeLayoutNoMinimumWidth(N, E) ==
    LET depth == [i \in 1..Len(N) |-> calculateNodeDepth(E, N[i].id)]
        totalNodes(d) == Cardinality({j \in 1..Len(N) : depth[j] = d})
        index(i)      == Cardinality({j \in 1..(i - 1) : depth[j] = depth[i]})
        startX(d)     == TREE_ROOT_X_START - ((totalNodes(d) * TREE_HORIZONTAL_SPACING) \div 2)
    IN  [i \in 1..Len(N) |->
            [N[i] EXCEPT !.x = startX(depth[i]) + index(i) * TREE_HORIZONTAL_SPACING,
                         !.y = TREE_ROOT_Y + depth[i] * TREE_VERTICAL_SPACING]]

\* ---- recalculateTreeLayout: group by depth in insertion order, one row per
\* ---- depth, siblings spread from startX.
recalculateTreeLayout(N, E) ==
    LET depth == [i \in 1..Len(N) |-> calculateNodeDepth(E, N[i].id)]
        totalNodes(d) == Cardinality({j \in 1..Len(N) : depth[j] = d})
        index(i)      == Cardinality({j \in 1..(i - 1) : depth[j] = depth[i]})
        totalWidth(d) == Max(totalNodes(d) * TREE_HORIZONTAL_SPACING, 400)
        startX(d)     == TREE_ROOT_X_START - (totalWidth(d) \div 2)
    IN  [i \in 1..Len(N) |->
            [N[i] EXCEPT !.x = startX(depth[i]) + index(i) * TREE_HORIZONTAL_SPACING,
                         !.y = TREE_ROOT_Y + depth[i] * TREE_VERTICAL_SPACING]]

\* ---- addNode: fresh id, grid position from the current node count unless
\* ---- the caller supplies one, importance defaults to small.
GridPosition(nodeCount) ==
    [x |-> (nodeCount % 4) * 300 + 100, y |-> (nodeCount \div 4) * 200 + 100]

addNode(N, id, label, importance, hasPosition, position) ==
    LET pos == IF hasPosition THEN position ELSE GridPosition(Len(N))
    IN  Append(N, [id         |-> id,
                   label      |-> label,
                   importance |-> IF importance = "none" THEN "small" ELSE importance,
                   topLabel   |-> <<"undefined">>,
                   x          |-> pos.x,
                   y          |-> pos.y])

\* ---- addEdge: no validation of the endpoints.
addEdge(E, id, source, target, label, relationship) ==
    Append(E, [id |-> id, source |-> source, target |-> target,
               label |-> label, relationship |-> relationship])

\* ---- addEdge of src/backend/src/services/graph.service.ts: the id is the
\* ---- string `e-${source}-${target}`, modelled by the parts it is built from.
addEdgeV1(E, source, target, label) ==
    Append(E, [id |-> <<"e", source, target>>, source |-> source,
               target |-> target, label |-> label])

\* ---- the spiral placement of the first GraphService of src/unnamed/part_010
\* Lengths are in tenths of a pixel, which holds radius * gridSize times a
\* cosine of three decimals: Px(n) is n pixels.
Px(n) == 10 * n

\* Math.cos of theta = 0, 15, ..., 345 degrees, in thousandths; Math.sin is
\* the cosine a quarter turn back.
CosTable == <<1000, 966, 866, 707, 500, 259, 0, -259, -500, -707, -866, -966,
              -1000, -966, -866, -707, -500, -259, 0, 259, 500, 707, 866, 966>>
Cos(a) == CosTable[a + 1]
Sin(a) == CosTable[((a + 18) % 24) + 1]

getSizeForImportance(importance) ==
    CASE importance = "small"  -> [width |-> Px(120), height |-> Px(80)]
      [] importance = "medium" -> [width |-> Px(200), height |-> Px(100)]
      [] importance = "large"  -> [width |-> Px(300), height |-> Px(150)]

\* The candidate of a radius step and an angle step: 500 + cos * radius *
\* gridSize, 300 + sin * radius * gridSize.
SpiralPoint(radius, a) ==
    [x |-> Px(500) + Cos(a) * radius, y |-> Px(300) + Sin(a) * radius]

\* (variant) an overlap test without the padding.
wouldOverlapNoPadding(N, size, c) ==
    \E i \in 1..Len(N) :
        /\ c.x < N[i].x + N[i].w
        /\ c.x + size.width > N[i].x
        /\ c.y < N[i].y + N[i].h
        /\ c.y + size.height > N[i].y

\* this.graph.nodes.some(node => ...) with padding = 40
wouldOverlap(N, size, c) ==
    \E i \in 1..Len(N) :
        /\ c.x < N[i].x + N[i].w + Px(40)
        /\ c.x + size.width + Px(40) > N[i].x
        /\ c.y < N[i].y + N[i].h + Px(40)
        /\ c.y + size.height + Px(40) > N[i].y

\* The inner loop of one radius step: the first of the 24 angles, in
\* ascending order, whose point does not overlap; 24 when there is none.
firstFreeAngle(N, size, radius) ==
    LET free == {a \in 0..23 : ~wouldOverlap(N, size, SpiralPoint(radius, a))}
    IN  IF free = {} THEN 24 ELSE CHOOSE a \in free : \A b \in free : a <= b

\* The outer loop, radius 0..19, from the step radius on; found is FALSE
\* when the loops ran out.
RECURSIVE spiralSearch(_, _, _)
spiralSearch(N, size, radius) ==
    IF radius >= 20 THEN [found |-> FALSE, x |-> 0, y |-> 0]
    ELSE LET a == firstFreeAngle(N, size, radius)
         IN  IF a < 24
             THEN [found |-> TRUE, x |-> SpiralPoint(radius, a).x,
                   y |-> SpiralPoint(radius, a).y]
             ELSE spiralSearch(N, size, radius + 1)

findNonOverlappingPosition(N, size) ==
    LET r == spiralSearch(N, size, 0)
    IN  IF r.found THEN [x |-> r.x, y |-> r.y]
        ELSE IF Len(N) > 0
        THEN [x |-> N[Len(N)].x + N[Len(N)].w + Px(40), y |-> N[Len(N)].y]
        ELSE [x |-> Px(100), y |-> Px(100)]

\* addNode of that GraphService: the size comes from the importance, the
\* position from the caller or from the spiral.
addNodeSpiral(N, id, label, importance, hasPosition, position) ==
    LET imp  == IF importance = "none" THEN "small" ELSE importance
        size == getSizeForImportance(imp)
        pos  == IF hasPosition THEN position ELSE findNonOverlappingPosition(N, size)
    IN  Append(N, [id |-> id, label |-> label, importance |-> imp,
                   x |-> pos.x, y |-> pos.y,
                   w |-> size.width, h |-> size.height])

\* ---- calculateAutoPosition and addNode of
\* ---- src/backend/src/services/graph.service.ts: the position is the grid
\* ---- cell of the current node count, three cells to a row.
calculateAutoPosition(N) ==
    [x |-> (Len(N) % 3) * 200, y |-> (Len(N) \div 3) * 200]

addNodeV1(N, id, label) ==
    Append(N, [id |-> id, label |-> label,
               x |-> calculateAutoPosition(N).x,
               y |-> calculateAutoPosition(N).y])

\* ---- findIndex: first index whose id matches, 0 when there is none.
findIndex(S, id) ==
    IF \E i \in 1..Len(S) : S[i].id = id
    THEN CHOOSE i \in 1..Len(S) : S[i].id = id /\ \A j \in 1..(i - 1) : S[j].id # id
    ELSE 0

splice(S, i) == [j \in 1..(Len(S) - 1) |-> IF j < i THEN S[j] ELSE S[j + 1]]

\* A removeNode that filters the edges before it looks for the node.
removeNodeFilterFirst(N, E, nodeId) ==
    LET nodeIndex == findIndex(N, nodeId)
        E1 == SelectSeq(E, LAMBDA e : e.source # nodeId /\ e.target # nodeId)
    IN  IF nodeIndex = 0
        THEN [ok |-> FALSE, nodes |-> N, edges |-> E1]
        ELSE [ok |-> TRUE, nodes |-> splice(N, nodeIndex), edges |-> E1]

\* (variant) a removeNode whose cascade drops only the edges that leave the
\* node.
removeNodeOutgoingOnly(N, E, nodeId) ==
    LET nodeIndex == findIndex(N, nodeId)
    IN  IF nodeIndex = 0
        THEN [ok |-> FALSE, nodes |-> N, edges |-> E]
        ELSE [ok    |-> TRUE,
              nodes |-> splice(N, nodeIndex),
              edges |-> SelectSeq(E, LAMBDA e : e.source # nodeId)]

\* ---- removeNode: splice the first node with the id, filter its edges.
removeNode(N, E, nodeId) ==
    LET nodeIndex == findIndex(N, nodeId)
    IN  IF nodeIndex = 0
        THEN [ok |-> FALSE, nodes |-> N, edges |-> E]
        ELSE [ok    |-> TRUE,
              nodes |-> splice(N, nodeIndex),
              edges |-> SelectSeq(E, LAMBDA e : e.source # nodeId /\ e.target # nodeId)]

\* ---- removeEdge: splice the first edge with the id.
removeEdge(E, edgeId) ==
    LET edgeIndex == findIndex(E, edgeId)
    IN  IF edgeIndex = 0
        THEN [ok |-> FALSE, edges |-> E]
        ELSE [ok |-> TRUE, edges |-> splice(E, edgeIndex)]


\* ---- updateNode: { ...node, ...updates, id: nodeId } on the first node with
\* ---- the id. The label of the updates lands beside data, not in data.label:
\* ---- topLabel is the node's own label property, label is data.label.
updateNode(N, nodeId, label) ==
    LET nodeIndex == findIndex(N, nodeId)
    IN  IF nodeIndex = 0
        THEN [ok |-> FALSE, nodes |-> N]
        ELSE [ok |-> TRUE,
              nodes |-> [N EXCEPT ![nodeIndex] =
                            [N[nodeIndex] EXCEPT !.topLabel = label, !.id = nodeId]]]

\* ---- addTranscript: push the entry, then keep the entries stored less than
\* ---- KEEP_MS ago. elapsed is the time that has passed since the previous
\* ---- call.
KEEP_MS == 300000

addTranscript(H, speaker, elapsed) ==
    LET aged   == [i \in 1..Len(H) |-> [H[i] EXCEPT !.age = @ + elapsed]]
        pushed == Append(aged, [speaker |-> speaker, age |-> 0])
    IN  SelectSeq(pushed, LAMBDA t : t.age < KEEP_MS)

\* ---- clear / clearGraph: a new empty graph object.
clear == [nodes |-> <<>>, edges |-> <<>>]

\* ---- replaceGraph: every input node becomes a node; its id is the input's
\* ---- id when it carries one and a fresh id otherwise, its position the
\* ---- input's position or (0, 0), its importance the input's or medium.
\* ---- An input node is [hasId, id, label, importance]; an input edge is
\* ---- [hasId, id, source, target, relationship].
RECURSIVE replaceNodes(_, _, _)
replaceNodes(input, i, nid) ==
    IF i > Len(input)
    THEN [nodes |-> <<>>, nid |-> nid]
    ELSE LET n    == input[i]
             rest == replaceNodes(input, i + 1, IF n.hasId THEN nid ELSE nid + 1)
         IN  [nodes |-> <<[id         |-> IF n.hasId THEN n.id ELSE nid,
                           label      |-> n.label,
                           importance |-> IF n.importance = "none" THEN "medium"
                                          ELSE n.importance,
                           topLabel   |-> <<"undefined">>,
                           x          |-> 0,
                           y          |-> 0]>> \o rest.nodes,
              nid   |-> rest.nid]

RECURSIVE replaceEdges(_, _, _)
replaceEdges(input, i, eid) ==
    IF i > Len(input)
    THEN [edges |-> <<>>, eid |-> eid]
    ELSE LET e    == input[i]
             rest == replaceEdges(input, i + 1, IF e.hasId THEN eid ELSE eid + 1)
         IN  [edges |-> <<[id           |-> IF e.hasId THEN e.id ELSE eid,
                           source       |-> e.source,
                           target       |-> e.target,
                           label        |-> "none",
                           relationship |-> e.relationship]>> \o rest.edges,
              eid   |-> rest.eid]

replaceGraph(inNodes, inEdges, nid, eid) ==
    LET rn == replaceNodes(inNodes, 1, nid)
        re == replaceEdges(inEdges, 1, eid)
    IN  [nodes |-> rn.nodes, edges |-> re.edges, nid |-> rn.nid, eid |-> re.eid]

\* ---- mergeNodes(nodeIds, mergedLabel): S is the set of ids in nodeIds.
\* ---- The merged node is added first, then one edge is added for every
\* ---- edge that was in the graph with exactly one endpoint in S, then the
\* ---- edges inside S are filtered out, then every id of S is removed.
RECURSIVE transferEdges(_, _, _, _, _, _)
transferEdges(E0, i, S, M, acc, eid) ==
    IF i > Len(E0)
    THEN [edges |-> acc, eid |-> eid]
    ELSE LET e == E0[i]
         IN  IF e.source \in S /\ e.target \notin S
             THEN transferEdges(E0, i + 1, S, M,
                      addEdge(acc, eid, M, e.target, e.label, "none"), eid + 1)
             ELSE IF e.source \notin S /\ e.target \in S
             THEN transferEdges(E0, i + 1, S, M,
                      addEdge(acc, eid, e.source, M, e.label, "none"), eid + 1)
             ELSE transferEdges(E0, i + 1, S, M, acc, eid)

\* nodeIds.forEach(id => this.removeNode(id))
RECURSIVE removeNodes(_, _, _)
removeNodes(N, E, nodeIds) ==
    IF nodeIds = <<>>
    THEN [nodes |-> N, edges |-> E]
    ELSE LET r == removeNode(N, E, Head(nodeIds))
         IN  removeNodes(r.nodes, r.edges, Tail(nodeIds))

mergeNodes(N, E, nodeIds, mergedLabel, nid, eid) ==
    LET S == Range(nodeIds)
        nodesToMerge == SelectSeq(N, LAMBDA n : n.id \in S)
    IN  IF Len(nodesToMerge) < 2
        THEN [ok |-> FALSE, nodes |-> N, edges |-> E, nid |-> nid, eid |-> eid,
              merged |-> Ghost]
        ELSE LET N1 == addNode(N, nid, mergedLabel, "large", FALSE, [x |-> 0, y |-> 0])
                 t  == transferEdges(E, 1, S, nid, E, eid)
                 E2 == SelectSeq(t.edges, LAMBDA e : ~(e.source \in S /\ e.target \in S))
                 r  == removeNodes(N1, E2, nodeIds)
             IN  [ok |-> TRUE, nodes |-> r.nodes, edges |-> r.edges,
                  nid |-> nid + 1, eid |-> t.eid, merged |-> nid]

\* ================================================== labels, duplicate test

\* A label is the sequence of its whitespace-separated tokens
\* (label.split(/\s+/)); a token is a word with its letter case.
Tokens == {"alpha", "Alpha", "beta", "gamma", "the"}

\* String.prototype.toLowerCase on a token.
Lower(t) == IF t = "Alpha" THEN "alpha" ELSE t

\* String.prototype.length of a token.
TokLen(t) == CASE t = "the"   -> 3
               [] t = "beta"  -> 4
               [] OTHER       -> 5

\* The label of a proposed node that has no label field (undefined).
Undefined == <<"undefined">>

toLowerCase(label) == [i \in 1..Len(label) |-> Lower(label[i])]

\* label.split(/\s+/).filter(w => w.length > 3) on the lowercased label.
words(lowered) == SelectSeq(lowered, LAMBDA w : TokLen(w) > 3)

\* The body of the callback of currentGraph.nodes.some(...): exact match of
\* the lowercased labels, or commonWords.length / min(lengths) > 0.6, where
\* 0 / 0 is NaN and NaN > 0.6 is false.
similarLabels(existing, new) ==
    LET existingLabel == toLowerCase(existing)
        newLabel      == toLowerCase(new)
        existingWords == words(existingLabel)
        newWords      == words(newLabel)
        commonWords   == SelectSeq(existingWords, LAMBDA w : w \in Range(newWords))
        minLen        == Min(Len(existingWords), Len(newWords))
    IN  \/ existingLabel = newLabel
        \/ (minLen > 0 /\ 10 * Len(commonWords) > 6 * minLen)

\* currentGraph.nodes.some(...) from index i on: "dup" when some node is
\* similar, "new" when none is, "throw" when toLowerCase is called on an
\* undefined label before a similar node is found.
RECURSIVE isDuplicate(_, _, _)
isDuplicate(N, i, label) ==
    IF i > Len(N) THEN "new"
    ELSE IF N[i].label = Undefined \/ label = Undefined THEN "throw"
    ELSE IF similarLabels(N[i].label, label) THEN "dup"
    ELSE isDuplicate(N, i + 1, label)

\* ================================================================== inputs

\* Labels the oracle and the clients propose, in a fixed order (the index of
\* a label stands for the label used as an identifier).
LabelPool == << <<"alpha", "beta">>, <<"Alpha", "beta">>, <<"gamma">> >>
Labels    == Range(LabelPool)
LabelIndex(l) == CHOOSE i \in 1..Len(LabelPool) : LabelPool[i] = l

\* Identifiers a request can name: the ids now in the graph and one
\* identifier that the store never handed out.
RefPool == {Ghost} \cup NodeIds(nodes)
EdgeRefPool == {Ghost} \cup NodeIds(edges)

SeqsUpTo(S, n) == UNION {[1..k -> S] : k \in 0..n}

\* The record kept in last: the handler, the shape of its input, its result,
\* its argument, the id set of a merge, and the number of nodes that were
\* isolated when a finalize pass began.
\* For an application of calculateNodeDepth: the depth returned and the
\* number of invocations made; for the duplicate test: the candidate label;
\* for process-transcript: the labels of the nodes and the edges the delta
\* proposed, and the 'transcript-processed' report the handler emitted.
\* The report has the fields nodes and edges; skipped lists what the report
\* names as skipped, which the report has no field for.
NoReport == [nodes |-> <<>>, edges |-> <<>>, skipped |-> <<>>]

NoOp == [op |-> "init", kind |-> "", ok |-> TRUE, arg |-> Ghost, S |-> {},
         isolated |-> 0, depth |-> 0, calls |-> 0, label |-> <<>>,
         delta |-> <<>>, deltaEdges |-> <<>>, report |-> NoReport]

\* ---- the event loop
\* A process-transcript invocation runs to its await (server.ts:150) and is
\* resumed with the oracle's answer; its continuation runs through the phases
\* nodes (173-210), edges (212-221), layout (224-230), broadcast (232-239).
\* inflight counts the invocations at the await; running is the continuation
\* on the stack and its locals.
Idle == [pc |-> "idle", hasNodes |-> FALSE, dNodes |-> <<>>,
         hasEdges |-> FALSE, dEdges |-> <<>>, added |-> 0]

\* finalize-graph reads currentGraph = graphService.getGraph() before its
\* await and uses it after (425, 578-620, 694-722). getGraph returns the
\* store's graph object: while the store keeps that object, currentGraph
\* shows the store as it is; once clear, clearGraph or replaceGraph has
\* assigned a new object, currentGraph is the object that was replaced, with
\* the nodes and edges it had then.
NoFinalize == [waiting |-> FALSE, detached |-> FALSE, nodes |-> <<>>, edges |-> <<>>]

\* ---- the OpenRouter service (openrouter.service.ts), one instance for the
\* whole server (server.ts:19)
\* Time is counted in seconds. since is Date.now() - lastRequestTime, capped
\* at minRequestInterval: the throttle only asks whether it is below that.
\* lastRequestTime starts at 0 (line 7), an age far above the interval.
minRequestInterval == 3
paidModels == <<"google/gemini-pro", "google/gemini-flash-1.5",
                "anthropic/claude-3-haiku", "openai/gpt-3.5-turbo">>
freeModels == <<"google/gemini-2.0-flash-exp:free",
                "meta-llama/llama-3.2-3b-instruct:free",
                "meta-llama/llama-3.2-1b-instruct:free",
                "qwen/qwen-2-7b-instruct:free">>

\* apiKey: whether the constructor found a key; calls: the chat calls made,
\* each with its model argument, its position (sleep: in the throttle's
\* setTimeout, request: at the await of axios.post, returned, thrown), the
\* index of currentModel in modelsToTry, the seconds its timer still runs,
\* the models it has sent a request to, the requests that failed, the content
\* of the response it accepted and what it returned or threw.
NoOpenRouter == [apiKey |-> TRUE, since |-> minRequestInterval, calls |-> <<>>]

NoTasks == [inflight |-> 0, running |-> Idle, finalize |-> NoFinalize,
            openRouter |-> NoOpenRouter]

\* A continuation that yielded between the node loop and the edge loop.
YieldPointsWithAwaitBeforeEdges == {"idle", "edges"}

\* The positions at which the running code yields to the event loop: the
\* code after the await of process-transcript holds no further await.
YieldPoints == {"idle"}

\* The size of the graph a run may build: lim is StoreLimits or DeltaLimits.
\* delta / deltaEdges: the number of nodes / edges one delta may propose;
\* messages: the number of 'User:' / 'AI:' messages in the text of one
\* process-transcript.
StoreLimits == [nodes |-> MaxNodes, edges |-> MaxEdges, steps |-> MaxSteps,
                delta |-> MaxDelta, deltaEdges |-> MaxDeltaEdges, messages |-> 0]
FinalizeLimits == [nodes |-> MaxFinalizeNodes, edges |-> MaxFinalizeEdges,
                   steps |-> MaxFinalizeSteps,
                   delta |-> MaxDelta, deltaEdges |-> MaxDeltaEdges, messages |-> 0]
DeltaLimits == [nodes |-> MaxDeltaGraphNodes, edges |-> MaxDeltaGraphEdges,
                steps |-> MaxDeltaSteps,
                delta |-> MaxDelta, deltaEdges |-> MaxDeltaEdges, messages |-> 0]
ClearLimits == [nodes |-> MaxClearNodes, edges |-> MaxClearEdges,
                steps |-> MaxClearSteps,
                delta |-> 1, deltaEdges |-> 0, messages |-> MaxMessages]
RefineLimits == [nodes |-> MaxRefineNodes, edges |-> MaxRefineEdges,
                 steps |-> MaxRefineSteps,
                 delta |-> MaxRefineEntries, deltaEdges |-> MaxRefineEntries,
                 messages |-> 0]
LoopLimits == [nodes |-> MaxLoopNodes, edges |-> MaxLoopEdges,
               steps |-> MaxLoopSteps,
               delta |-> 1, deltaEdges |-> 1, messages |-> 0]
LabelsLimits == [nodes |-> MaxLabelsNodes, edges |-> MaxLabelsEdges,
                 steps |-> MaxLabelsSteps,
                 delta |-> MaxLabelsDelta, deltaEdges |-> 1,
                 messages |-> 0]
MergeLimits == [nodes |-> MaxMergeNodes, edges |-> MaxMergeEdges,
                steps |-> MaxMergeSteps,
                delta |-> 0, deltaEdges |-> 1, messages |-> 0]
HubLimits == [nodes |-> MaxHubNodes, edges |-> 2 * MaxHubNodes + MaxHubEdges,
              steps |-> 1, delta |-> 0, deltaEdges |-> 1, messages |-> 0]
StaleLimits == [nodes |-> MaxStaleNodes, edges |-> MaxStaleEdges,
                steps |-> MaxStaleSteps,
                delta |-> MaxDelta, deltaEdges |-> 1, messages |-> 0]
LookupLimits == [nodes |-> MaxLookupNodes, edges |-> MaxLookupEdges,
                 steps |-> MaxLookupSteps,
                 delta |-> MaxDelta, deltaEdges |-> MaxDeltaEdges, messages |-> 0]
LayoutLimits == [nodes |-> MaxLayoutNodes, edges |-> MaxLayoutEdges,
                 steps |-> MaxLayoutSteps,
                 delta |-> MaxDelta, deltaEdges |-> MaxDeltaEdges, messages |-> 0]
BatchLimits == [nodes |-> MaxBatchNodes, edges |-> 0, steps |-> MaxBatchSteps,
                delta |-> MaxBatch, deltaEdges |-> 0, messages |-> 0]

Within(lim, N, E, nid, eid) ==
    /\ Len(N) <= lim.nodes
    /\ Len(E) <= lim.edges
    /\ nid <= MaxNodeId + 1
    /\ eid <= Max(MaxEdgeId, lim.edges) + 1

\* ==================================================================== Init
Init ==
    /\ nodes = <<>>
    /\ edges = <<>>
    /\ nextNodeId = 1
    /\ nextEdgeId = 1
    /\ last = NoOp
    /\ steps = 0
    /\ transcriptHistory = <<>>
    /\ eventLoop = NoTasks

\* One more handler invocation.
\* A handler is dispatched when no continuation is on the stack.
CanInvoke(lim) == steps < lim.steps /\ eventLoop.running.pc \in YieldPoints
\* One more invocation, of a handler that stores no transcript.
Invoke    == steps' = steps + 1 /\ UNCHANGED <<transcriptHistory, eventLoop>>
\* One more invocation, which leaves H as the transcript history.
InvokeStoring(H) ==
    steps' = steps + 1 /\ transcriptHistory' = H /\ UNCHANGED eventLoop
\* One more invocation, which assigns the store a new graph object and leaves
\* H as the transcript history: a waiting finalize pass that still held the
\* store's object now holds the replaced one.
InvokeReplacing(H) ==
    /\ steps' = steps + 1
    /\ transcriptHistory' = H
    /\ eventLoop' = IF eventLoop.finalize.waiting /\ ~eventLoop.finalize.detached
                    THEN [eventLoop EXCEPT !.finalize.detached = TRUE,
                                           !.finalize.nodes = nodes,
                                           !.finalize.edges = edges]
                    ELSE eventLoop

\* ============================================= handlers that need no oracle

\* POST /api/graph/node
AddNodeEndpoint(lim) ==
    CanInvoke(lim) /\
    \E label \in {LabelPool[3]}, hasPosition \in {FALSE} :
        LET N1 == addNode(nodes, nextNodeId, label, "none", hasPosition,
                          [x |-> 100, y |-> 100])
        IN  /\ Within(lim, N1, edges, nextNodeId + 1, nextEdgeId)
            /\ nodes' = N1
            /\ nextNodeId' = nextNodeId + 1
            /\ Invoke
            /\ last' = [NoOp EXCEPT !.op = "add-node", !.arg = nextNodeId]
            /\ UNCHANGED <<edges, nextEdgeId>>

\* POST /api/graph/edge
AddEdgeEndpoint(lim) ==
    CanInvoke(lim) /\
    \E source \in RefPool, target \in RefPool, label \in {"none"} :
        LET E1 == addEdge(edges, nextEdgeId, source, target, label, "none")
        IN  /\ Within(lim, nodes, E1, nextNodeId, nextEdgeId + 1)
            /\ edges' = E1
            /\ nextEdgeId' = nextEdgeId + 1
            /\ Invoke
            /\ last' = [NoOp EXCEPT !.op = "add-edge", !.arg = nextEdgeId]
            /\ UNCHANGED <<nodes, nextNodeId>>

\* The ids of S in ascending order.
Ascending(S) ==
    CHOOSE f \in [1..Cardinality(S) -> S] :
        \A i, j \in 1..Cardinality(S) : i < j => f[i] < f[j]

\* The nodeIds arrays of a merge request: any set of identifiers, each named
\* once, or one identifier named twice.
MergeRequests ==
    {Ascending(S) : S \in SUBSET RefPool} \cup {<<x, x>> : x \in RefPool}

\* POST /api/graph/merge: 400 when nodeIds has fewer than 2 entries or
\* mergedLabel is missing, 400 when mergeNodes returns null.
MergeEndpoint(lim) ==
    CanInvoke(lim) /\
    \E nodeIds \in MergeRequests, hasLabel \in BOOLEAN :
        \E r \in {IF Len(nodeIds) < 2 \/ ~hasLabel
                  THEN [ok |-> FALSE, nodes |-> nodes, edges |-> edges,
                        nid |-> nextNodeId, eid |-> nextEdgeId, merged |-> Ghost]
                  ELSE mergeNodes(nodes, edges, nodeIds, LabelPool[3],
                                  nextNodeId, nextEdgeId)} :
            /\ Within(lim, r.nodes, r.edges, r.nid, r.eid)
            /\ nodes' = r.nodes
            /\ edges' = r.edges
            /\ nextNodeId' = r.nid
            /\ nextEdgeId' = r.eid
            /\ Invoke
            /\ last' = [NoOp EXCEPT !.op = "merge", !.ok = r.ok,
                                    !.kind = IF Len(nodeIds) < 2 THEN "tooFew"
                                             ELSE IF ~hasLabel THEN "noLabel"
                                             ELSE "merge",
                                    !.arg = r.merged, !.S = Range(nodeIds)]

\* GraphService.recalculateTreeLayout() called on the store as it is; kind
\* tells whether the previous invocation was a layout call too.
RecalculateTreeLayout(lim) ==
    /\ CanInvoke(lim)
    /\ nodes' = recalculateTreeLayout(nodes, edges)
    /\ Invoke
    /\ last' = [NoOp EXCEPT !.op = "layout",
                            !.kind = IF last.op = "layout" THEN "repeat" ELSE "first"]
    /\ UNCHANGED <<edges, nextNodeId, nextEdgeId>>

\* GraphService.addEdge of src/backend/src/services/graph.service.ts, called
\* with any two endpoint identifiers.
AddEdgeV1 ==
    /\ steps < MaxEdgeCalls
    /\ eventLoop.running.pc \in YieldPoints
    /\ \E source \in 0..MaxEdgeEnds, target \in 0..MaxEdgeEnds :
           edges' = addEdgeV1(edges, source, target, "none")
    /\ Invoke
    /\ last' = [NoOp EXCEPT !.op = "add-edge"]
    /\ UNCHANGED <<nodes, nextNodeId, nextEdgeId>>

\* addNode of the spiral GraphService: without a position, for each
\* importance, and with a position the caller chose.
AddNodeSpiral ==
    /\ steps < MaxSpiralNodes
    /\ eventLoop.running.pc \in YieldPoints
    /\ \E importance \in {"small", "medium", "large"}, hasPosition \in BOOLEAN :
       \E position \in IF hasPosition
                        THEN {[x |-> Px(600), y |-> Px(300)], [x |-> Px(330), y |-> Px(410)]}
                        ELSE {[x |-> 0, y |-> 0]} :
           /\ nodes' = addNodeSpiral(nodes, nextNodeId, LabelPool[3], importance,
                                     hasPosition, position)
           /\ last' = [NoOp EXCEPT !.op = "add-node",
                                   !.kind = IF hasPosition THEN "position" ELSE "spiral",
                                   !.arg = nextNodeId]
    /\ nextNodeId' = nextNodeId + 1
    /\ Invoke
    /\ UNCHANGED <<edges, nextEdgeId>>

\* GraphService.addNode of src/backend/src/services/graph.service.ts, called
\* without a position.
AddNodeV1 ==
    /\ steps < MaxGridSteps
    /\ eventLoop.running.pc \in YieldPoints
    /\ Len(nodes) < MaxGridNodes
    /\ nodes' = addNodeV1(nodes, nextNodeId, LabelPool[3])
    /\ nextNodeId' = nextNodeId + 1
    /\ Invoke
    /\ last' = [NoOp EXCEPT !.op = "add-node", !.arg = nextNodeId]
    /\ UNCHANGED <<edges, nextEdgeId>>

\* GraphService.removeNode of src/backend/src/services/graph.service.ts: the
\* first node with the id is spliced out and its edges are filtered out.
RemoveNodeV1 ==
    /\ steps < MaxGridSteps
    /\ eventLoop.running.pc \in YieldPoints
    /\ \E nodeId \in RefPool :
           \E r \in {removeNode(nodes, edges, nodeId)} :
               /\ nodes' = r.nodes
               /\ edges' = r.edges
               /\ last' = [NoOp EXCEPT !.op = "remove-node", !.ok = r.ok,
                                       !.arg = nodeId]
    /\ Invoke
    /\ UNCHANGED <<nextNodeId, nextEdgeId>>

\* socket 'clear-graph' (clear) and POST /api/graph/clear (clearGraph)
ClearGraph(lim) ==
    CanInvoke(lim) /\
    \E entry \in {"clear-graph", "api-clear"} :
        /\ nodes' = clear.nodes
        /\ edges' = clear.edges
        /\ InvokeReplacing(IF entry = "clear-graph" THEN <<>> ELSE transcriptHistory)
        /\ last' = [NoOp EXCEPT !.op = entry]
        /\ UNCHANGED <<nextNodeId, nextEdgeId>>

\* socket 'remove-node'
RemoveNode(lim) ==
    CanInvoke(lim) /\
    \E nodeId \in RefPool :
        \E r \in {removeNode(nodes, edges, nodeId)} :
            /\ nodes' = r.nodes
            /\ edges' = r.edges
            /\ Invoke
            /\ last' = [NoOp EXCEPT !.op = "remove-node", !.ok = r.ok, !.arg = nodeId]
            /\ UNCHANGED <<nextNodeId, nextEdgeId>>

\* GraphService.updateNode(nodeId, {label}) called on the store.
UpdateNode(lim) ==
    CanInvoke(lim) /\
    \E nodeId \in RefPool, label \in {LabelPool[1]} :
        \E r \in {updateNode(nodes, nodeId, label)} :
            /\ nodes' = r.nodes
            /\ Invoke
            /\ last' = [NoOp EXCEPT !.op = "update-node", !.ok = r.ok, !.arg = nodeId]
            /\ UNCHANGED <<edges, nextNodeId, nextEdgeId>>

\* socket 'remove-edge'
RemoveEdge(lim) ==
    CanInvoke(lim) /\
    \E edgeId \in EdgeRefPool :
        \E r \in {removeEdge(edges, edgeId)} :
            /\ edges' = r.edges
            /\ Invoke
            /\ last' = [NoOp EXCEPT !.op = "remove-edge", !.ok = r.ok, !.arg = edgeId]
            /\ UNCHANGED <<nodes, nextNodeId, nextEdgeId>>

\* socket 'restructure-graph'
RestructureInputNodes ==
    SeqsUpTo([hasId : BOOLEAN, id : {Ghost}, label : {LabelPool[3]},
              importance : {"none"}], MaxDelta)
RestructureInputEdges ==
    SeqsUpTo([hasId : {FALSE}, id : {Ghost}, source : {Ghost}, target : {Ghost},
              relationship : {"none"}], 1)

RestructureGraph(lim) ==
    CanInvoke(lim) /\
    \E inNodes \in RestructureInputNodes, inEdges \in RestructureInputEdges :
        \E r \in {replaceGraph(inNodes, inEdges, nextNodeId, nextEdgeId)} :
            /\ Within(lim, r.nodes, r.edges, r.nid, r.eid)
            /\ nodes' = r.nodes
            /\ edges' = r.edges
            /\ nextNodeId' = r.nid
            /\ nextEdgeId' = r.eid
            /\ InvokeReplacing(transcriptHistory)
            /\ last' = [NoOp EXCEPT !.op = "restructure-graph"]

\* ================================================ handlers fed by an oracle

\* What comes back from openRouterService.chat and the parsing that follows:
\* the call throws, the response is empty, holds no {...}, holds {...} that
\* JSON.parse rejects, or parses to an object.
OracleOutcomes == {"throws", "empty", "noJson", "badJson", "parsed"}

\* ---- socket 'process-transcript'
\* The dedup loop: currentGraph is the store's own graph object, so each
\* candidate is tested against the nodes as they are when its turn comes.
RECURSIVE insertNodes(_, _, _, _, _)
insertNodes(N, proposed, i, nid, added) ==
    IF i > Len(proposed)
    THEN [nodes |-> N, nid |-> nid, added |-> added, threw |-> FALSE]
    ELSE LET d == isDuplicate(N, 1, proposed[i])
         IN  IF d = "throw"
             THEN [nodes |-> N, nid |-> nid, added |-> added, threw |-> TRUE]
             ELSE IF d = "dup"
             THEN insertNodes(N, proposed, i + 1, nid, added)
             ELSE insertNodes(addNode(N, nid, proposed[i], "none", FALSE,
                                      [x |-> 0, y |-> 0]),
                              proposed, i + 1, nid + 1, added + 1)

\* The edge loop: every proposed edge is added as it is.
RECURSIVE insertEdges(_, _, _, _)
insertEdges(E, proposed, i, eid) ==
    IF i > Len(proposed)
    THEN [edges |-> E, eid |-> eid]
    ELSE LET p   == proposed[i]
             rel == IF p.relationship = "none" THEN "relatesTo" ELSE p.relationship
         IN  insertEdges(addEdge(E, eid, p.source, p.target, "none", rel),
                         proposed, i + 1, eid + 1)

\* The handler after the oracle has answered.  hasNodes / hasEdges: the
\* parsed object has a nodes / edges field that is an array.
processTranscript(N, E, nid, eid, outcome, hasNodes, dNodes, hasEdges, dEdges) ==
    IF outcome # "parsed"
    THEN [nodes |-> N, edges |-> E, nid |-> nid, eid |-> eid, ok |-> FALSE,
          report |-> NoReport]
    ELSE LET rn == IF hasNodes THEN insertNodes(N, dNodes, 1, nid, 0)
                   ELSE [nodes |-> N, nid |-> nid, added |-> 0, threw |-> FALSE]
             re == IF hasEdges /\ ~rn.threw THEN insertEdges(E, dEdges, 1, eid)
                   ELSE [edges |-> E, eid |-> eid]
             changed == rn.added > 0 \/ Len(re.edges) > Len(E)
         IN  [nodes |-> IF changed /\ ~rn.threw
                        THEN recalculateTreeLayout(rn.nodes, re.edges)
                        ELSE rn.nodes,
              edges |-> re.edges, nid |-> rn.nid, eid |-> re.eid, ok |-> ~rn.threw,
              report |-> IF rn.threw THEN NoReport
                         ELSE [nodes   |-> [k \in 1..(Len(rn.nodes) - Len(N)) |->
                                               rn.nodes[Len(N) + k].label],
                               edges   |-> [k \in 1..(Len(re.edges) - Len(E)) |->
                                               [source |-> re.edges[Len(E) + k].source,
                                                target |-> re.edges[Len(E) + k].target]],
                               skipped |-> <<>>]]

ProposedNodes(n) == SeqsUpTo(Labels \cup {Undefined}, n)
ProposedEdges(n) == SeqsUpTo([source : RefPool, target : RefPool,
                              relationship : {"none"}], n)

Shape(outcome, hasNodes, hasEdges) ==
    IF outcome # "parsed" THEN outcome
    ELSE IF hasNodes THEN (IF hasEdges THEN "nodes+edges" ELSE "nodes")
    ELSE (IF hasEdges THEN "edges" ELSE "neither")

\* ---- socket 'refine-graph'
\* The update loop: updateNode(update.id, {label: update.newLabel, ...}) for
\* every entry; changed tells whether a call returned true.
RECURSIVE updateNodes(_, _, _)
updateNodes(N, updates, i) ==
    IF i > Len(updates)
    THEN [nodes |-> N, changed |-> FALSE]
    ELSE LET r    == updateNode(N, updates[i].id, updates[i].newLabel)
             rest == updateNodes(r.nodes, updates, i + 1)
         IN  [nodes |-> rest.nodes, changed |-> r.ok \/ rest.changed]

\* The handler: nothing on an empty graph or when the oracle's answer cannot
\* be used; otherwise the removals, then the updates, then the edges, and a
\* layout when one of them changed something.  A list that the parsed object
\* lacks behaves as an empty list.
refineGraph(N, E, eid, outcome, nodesToRemove, nodesToUpdate, edgesToAdd) ==
    IF Len(N) = 0 \/ outcome # "parsed"
    THEN [nodes |-> N, edges |-> E, eid |-> eid]
    ELSE LET rr == removeNodes(N, E, nodesToRemove)
             ru == updateNodes(rr.nodes, nodesToUpdate, 1)
             re == insertEdges(rr.edges, edgesToAdd, 1, eid)
             changesMade == \/ Len(rr.nodes) < Len(N)
                            \/ ru.changed
                            \/ Len(edgesToAdd) > 0
         IN  [nodes |-> IF changesMade
                        THEN recalculateTreeLayout(ru.nodes, re.edges)
                        ELSE ru.nodes,
              edges |-> re.edges, eid |-> re.eid]

RefineGraph(lim) ==
    CanInvoke(lim) /\
    \E outcome \in IF Len(nodes) = 0 THEN {"throws"} ELSE OracleOutcomes :
    \E nodesToRemove \in IF outcome = "parsed" THEN SeqsUpTo(RefPool, lim.delta)
                          ELSE {<<>>} :
    \E nodesToUpdate \in IF outcome = "parsed"
                          THEN SeqsUpTo([id : RefPool, newLabel : {LabelPool[1]}],
                                        lim.delta)
                          ELSE {<<>>} :
    \E edgesToAdd \in IF outcome = "parsed" THEN ProposedEdges(lim.deltaEdges)
                       ELSE {<<>>} :
        \E r \in {refineGraph(nodes, edges, nextEdgeId, outcome,
                              nodesToRemove, nodesToUpdate, edgesToAdd)} :
            /\ Within(lim, r.nodes, r.edges, nextNodeId, r.eid)
            /\ nodes' = r.nodes
            /\ edges' = r.edges
            /\ nextEdgeId' = r.eid
            /\ Invoke
            /\ last' = [NoOp EXCEPT
                           !.op = "refine-graph",
                           !.kind = IF Len(nodes) = 0 THEN "emptyGraph" ELSE outcome,
                           !.ok = outcome \in {"parsed", "noJson", "empty"},
                           !.S = Range(nodesToRemove),
                           !.delta = nodesToUpdate]
            /\ UNCHANGED nextNodeId

\* The addTranscript calls of process-transcript: one per message of the
\* text, made before the oracle is asked.
RECURSIVE storeMessages(_, _, _)
storeMessages(H, speakers, elapsed) ==
    IF speakers = <<>>
    THEN H
    ELSE storeMessages(addTranscript(H, Head(speakers), elapsed), Tail(speakers), 0)

Elapsed == {0, KEEP_MS}

ProcessTranscript(lim) ==
    CanInvoke(lim) /\
    \E speakers \in SeqsUpTo({"user", "ai"}, lim.messages) :
    \E elapsed \in IF speakers = <<>> THEN {0} ELSE Elapsed :
    \E outcome \in OracleOutcomes :
    \E hasNodes \in IF outcome = "parsed" THEN BOOLEAN ELSE {FALSE} :
    \E hasEdges \in IF outcome = "parsed" THEN BOOLEAN ELSE {FALSE} :
    \E dNodes \in IF hasNodes THEN ProposedNodes(lim.delta) ELSE {<<>>} :
    \E dEdges \in IF hasEdges THEN ProposedEdges(lim.deltaEdges) ELSE {<<>>} :
        /\ \E r \in {processTranscript(nodes, edges, nextNodeId, nextEdgeId,
                                      outcome, hasNodes, dNodes, hasEdges, dEdges)} :
               /\ Within(lim, r.nodes, r.edges, r.nid, r.eid)
               /\ nodes' = r.nodes
               /\ edges' = r.edges
               /\ nextNodeId' = r.nid
               /\ nextEdgeId' = r.eid
               /\ InvokeStoring(storeMessages(transcriptHistory, speakers, elapsed))
               /\ last' = [NoOp EXCEPT !.op = "process-transcript",
                                       !.kind = Shape(outcome, hasNodes, hasEdges),
                                       !.ok = r.ok, !.delta = dNodes,
                                       !.deltaEdges = dEdges, !.report = r.report]

\* ---- process-transcript as the event loop runs it
\* The invocation up to its await: the transcripts are stored, the oracle is
\* asked.
StartTranscript(lim) ==
    /\ CanInvoke(lim)
    /\ eventLoop.inflight < MaxInflight
    /\ \E speakers \in SeqsUpTo({"user", "ai"}, lim.messages) :
       \E elapsed \in IF speakers = <<>> THEN {0} ELSE Elapsed :
           transcriptHistory' = storeMessages(transcriptHistory, speakers, elapsed)
    /\ steps' = steps + 1
    /\ eventLoop' = [eventLoop EXCEPT !.inflight = @ + 1]
    /\ last' = [NoOp EXCEPT !.op = "process-transcript", !.kind = "await"]
    /\ UNCHANGED <<nodes, edges, nextNodeId, nextEdgeId>>

\* The oracle's answer arrives for one waiting invocation: the answer is
\* checked and parsed (150-168); a parsed delta starts the continuation.
ResumeTranscript(lim) ==
    /\ CanInvoke(lim)
    /\ eventLoop.inflight > 0
    /\ \E outcome \in OracleOutcomes :
       \E hasNodes \in IF outcome = "parsed" THEN BOOLEAN ELSE {FALSE} :
       \E hasEdges \in IF outcome = "parsed" THEN BOOLEAN ELSE {FALSE} :
       \E dNodes \in IF hasNodes THEN ProposedNodes(lim.delta) ELSE {<<>>} :
       \E dEdges \in IF hasEdges THEN ProposedEdges(lim.deltaEdges) ELSE {<<>>} :
           /\ eventLoop' =
                  [inflight |-> eventLoop.inflight - 1,
                   finalize |-> eventLoop.finalize,
                   openRouter |-> eventLoop.openRouter,
                   running  |-> IF outcome = "parsed"
                                THEN [pc |-> "nodes", hasNodes |-> hasNodes,
                                      dNodes |-> dNodes, hasEdges |-> hasEdges,
                                      dEdges |-> dEdges, added |-> 0]
                                ELSE Idle]
           /\ last' = [NoOp EXCEPT !.op = "process-transcript",
                                   !.kind = IF outcome = "parsed" THEN "resumed"
                                            ELSE outcome,
                                   !.ok = outcome = "parsed"]
    /\ steps' = steps + 1
    /\ UNCHANGED <<nodes, edges, nextNodeId, nextEdgeId, transcriptHistory>>

\* One phase of the continuation on the stack.
ContinueTranscript(lim) ==
    LET run == eventLoop.running
    IN  /\ run.pc # "idle"
        /\ \/ /\ run.pc = "nodes"
              /\ \E rn \in {IF run.hasNodes
                             THEN insertNodes(nodes, run.dNodes, 1, nextNodeId, 0)
                             ELSE [nodes |-> nodes, nid |-> nextNodeId,
                                   added |-> 0, threw |-> FALSE]} :
                     /\ Len(rn.nodes) <= lim.nodes
                     /\ rn.nid <= MaxNodeId + 1
                     /\ nodes' = rn.nodes
                     /\ nextNodeId' = rn.nid
                     /\ eventLoop' =
                            [eventLoop EXCEPT
                                !.running = IF rn.threw THEN Idle
                                            ELSE [run EXCEPT !.pc = "edges",
                                                             !.added = rn.added]]
                     /\ last' = [NoOp EXCEPT !.op = "process-transcript",
                                             !.kind = "nodes", !.ok = ~rn.threw]
              /\ UNCHANGED <<edges, nextEdgeId>>
           \/ /\ run.pc = "edges"
              /\ \E re \in {IF run.hasEdges
                             THEN insertEdges(edges, run.dEdges, 1, nextEdgeId)
                             ELSE [edges |-> edges, eid |-> nextEdgeId]} :
                     /\ Len(re.edges) <= lim.edges
                     /\ re.eid <= MaxEdgeId + 1
                     /\ edges' = re.edges
                     /\ nextEdgeId' = re.eid
                     /\ eventLoop' =
                            [eventLoop EXCEPT
                                !.running = [run EXCEPT
                                                !.pc = "layout",
                                                !.added = @ + Len(re.edges) - Len(edges)]]
              /\ last' = [NoOp EXCEPT !.op = "process-transcript", !.kind = "edges"]
              /\ UNCHANGED <<nodes, nextNodeId>>
           \/ /\ run.pc = "layout"
              /\ nodes' = IF run.added > 0 THEN recalculateTreeLayout(nodes, edges)
                          ELSE nodes
              /\ eventLoop' = [eventLoop EXCEPT !.running = [run EXCEPT !.pc = "broadcast"]]
              /\ last' = [NoOp EXCEPT !.op = "process-transcript", !.kind = "layout"]
              /\ UNCHANGED <<edges, nextNodeId, nextEdgeId>>
           \/ /\ run.pc = "broadcast"
              /\ eventLoop' = [eventLoop EXCEPT !.running = Idle]
              /\ last' = [NoOp EXCEPT !.op = "process-transcript", !.kind = "broadcast"]
              /\ UNCHANGED <<nodes, edges, nextNodeId, nextEdgeId>>
        /\ UNCHANGED <<steps, transcriptHistory>>

\* POST /api/vapi/webhook: a 'transcript' event that carries a transcript is
\* stored; every other event leaves the store alone.
VapiWebhook(lim) ==
    CanInvoke(lim) /\
    \E type \in {"transcript", "other"}, hasTranscript \in BOOLEAN,
       speaker \in {"user", "unknown"}, elapsed \in Elapsed :
        /\ InvokeStoring(IF type = "transcript" /\ hasTranscript
                         THEN addTranscript(transcriptHistory, speaker, elapsed)
                         ELSE transcriptHistory)
        /\ last' = [NoOp EXCEPT !.op = "webhook", !.kind = type]
        /\ UNCHANGED <<nodes, edges, nextNodeId, nextEdgeId>>

\* ---- POST /api/vapi/function-call (updateGraph) and POST /api/process-text
\* An endpoint of a proposed edge is a label or an identifier; nodeIdMap maps
\* the label of every node of the delta to the id the store gave it (a later
\* node with the same label overwrites the entry).  A reference that is not a
\* key of nodeIdMap is used as it is: a label then stands as an identifier
\* that no node has (minus its index in LabelPool).
\* A lookup that uses every reference as it is.
nodeIdMapLookupVerbatim(nodeIdMap, ref) ==
    IF ref.isLabel THEN 0 - LabelIndex(ref.label) ELSE ref.id

nodeIdMapLookup(nodeIdMap, ref) ==
    IF ref.isLabel
    THEN (IF ref.label \in DOMAIN nodeIdMap THEN nodeIdMap[ref.label]
          ELSE 0 - LabelIndex(ref.label))
    ELSE ref.id

RECURSIVE mapNodes(_, _, _, _, _, _)
mapNodes(N, proposed, i, nid, importance, nodeIdMap) ==
    IF i > Len(proposed)
    THEN [nodes |-> N, nid |-> nid, nodeIdMap |-> nodeIdMap]
    ELSE mapNodes(addNode(N, nid, proposed[i], importance, FALSE, [x |-> 0, y |-> 0]),
                  proposed, i + 1, nid + 1, importance,
                  [l \in (DOMAIN nodeIdMap) \cup {proposed[i]} |->
                      IF l = proposed[i] THEN nid ELSE nodeIdMap[l]])

RECURSIVE mapEdges(_, _, _, _, _)
mapEdges(E, proposed, i, eid, nodeIdMap) ==
    IF i > Len(proposed)
    THEN [edges |-> E, eid |-> eid]
    ELSE LET sourceId == nodeIdMapLookup(nodeIdMap, proposed[i].source)
             targetId == nodeIdMapLookup(nodeIdMap, proposed[i].target)
         IN  mapEdges(addEdge(E, eid, sourceId, targetId, proposed[i].label, "none"),
                      proposed, i + 1, eid + 1, nodeIdMap)

updateGraph(N, E, nid, eid, dNodes, dEdges, importance) ==
    LET rn == mapNodes(N, dNodes, 1, nid, importance, <<>>)
        re == mapEdges(E, dEdges, 1, eid, rn.nodeIdMap)
    IN  [nodes |-> rn.nodes, edges |-> re.edges, nid |-> rn.nid, eid |-> re.eid]

LabelledNodes(n) == SeqsUpTo({LabelPool[1], LabelPool[3]}, n)
EdgeRefs == [isLabel : {TRUE}, label : {LabelPool[1], LabelPool[3]}, id : {Ghost}]
                \cup [isLabel : {FALSE}, label : {LabelPool[1]}, id : {Ghost}]
LabelledEdges(n) == SeqsUpTo([source : EdgeRefs, target : EdgeRefs, label : {"none"}],
                             n)

\* POST /api/vapi/function-call with the tool call updateGraph; parsed = the
\* function arguments are an object or a string that JSON.parse accepts.
FunctionCall(lim) ==
    CanInvoke(lim) /\
    \E parsed \in BOOLEAN, importance \in {"none"} :
    \E dNodes \in IF parsed THEN LabelledNodes(lim.delta) ELSE {<<>>} :
    \E dEdges \in IF parsed THEN LabelledEdges(lim.deltaEdges) ELSE {<<>>} :
        /\ \E r \in {updateGraph(nodes, edges, nextNodeId, nextEdgeId,
                                dNodes, dEdges, importance)} :
               /\ Within(lim, r.nodes, r.edges, r.nid, r.eid)
               /\ nodes' = r.nodes
               /\ edges' = r.edges
               /\ nextNodeId' = r.nid
               /\ nextEdgeId' = r.eid
               /\ Invoke
               /\ last' = [NoOp EXCEPT !.op = "function-call",
                                       !.kind = IF parsed THEN "parsed" ELSE "badJson",
                                       !.ok = parsed,
                                       !.delta = dNodes, !.deltaEdges = dEdges]

\* POST /api/process-text: the oracle's answer is parsed, then the same
\* insertion as updateGraph with the default importance.
ProcessText(lim) ==
    CanInvoke(lim) /\
    \E outcome \in OracleOutcomes \ {"empty"} :
    \E dNodes \in IF outcome = "parsed" THEN LabelledNodes(lim.delta) ELSE {<<>>} :
    \E dEdges \in IF outcome = "parsed" THEN LabelledEdges(lim.deltaEdges) ELSE {<<>>} :
        /\ \E r \in {updateGraph(nodes, edges, nextNodeId, nextEdgeId,
                                dNodes, dEdges, "none")} :
               /\ Within(lim, r.nodes, r.edges, r.nid, r.eid)
               /\ nodes' = r.nodes
               /\ edges' = r.edges
               /\ nextNodeId' = r.nid
               /\ nextEdgeId' = r.eid
               /\ Invoke
               /\ last' = [NoOp EXCEPT !.op = "process-text", !.kind = outcome,
                                       !.ok = (outcome = "parsed"),
                                       !.delta = dNodes, !.deltaEdges = dEdges]

\* ---- socket 'finalize-graph'
connections(E, id) == Len(SelectSeq(E, LAMBDA e : e.source = id \/ e.target = id))

isolatedNodes(N, E) == SelectSeq(N, LAMBDA n : connections(E, n.id) = 0)

\* let mostConnectedNode = nodes[0]; replaced by each node whose connection
\* count is greater than the greatest seen so far.
RECURSIVE mostConnectedFrom(_, _, _, _, _)
mostConnectedFrom(N, E, i, best, maxConnections) ==
    IF i > Len(N) THEN best
    ELSE IF connections(E, N[i].id) > maxConnections
    THEN mostConnectedFrom(N, E, i + 1, N[i], connections(E, N[i].id))
    ELSE mostConnectedFrom(N, E, i + 1, best, maxConnections)

\* (variant) a hub selection that lets a later node with as many connections
\* replace the one found so far.
RECURSIVE lastMostConnectedFrom(_, _, _, _, _)
lastMostConnectedFrom(N, E, i, best, maxConnections) ==
    IF i > Len(N) THEN best
    ELSE IF connections(E, N[i].id) >= maxConnections
    THEN lastMostConnectedFrom(N, E, i + 1, N[i], connections(E, N[i].id))
    ELSE lastMostConnectedFrom(N, E, i + 1, best, maxConnections)

lastMostConnectedNode(N, E) == lastMostConnectedFrom(N, E, 1, N[1], 0)

mostConnectedNode(N, E) == mostConnectedFrom(N, E, 1, N[1], 0)

\* (variant) a fallback that never joins the hub to itself.
RECURSIVE connectIsolatedExceptHub(_, _, _, _, _)
connectIsolatedExceptHub(E, isolated, i, hub, eid) ==
    IF i > Len(isolated)
    THEN [edges |-> E, eid |-> eid]
    ELSE IF isolated[i].id = hub.id
    THEN connectIsolatedExceptHub(E, isolated, i + 1, hub, eid)
    ELSE connectIsolatedExceptHub(
             addEdge(E, eid, hub.id, isolated[i].id, "none", "relates to"),
             isolated, i + 1, hub, eid + 1)

\* First fallback (the oracle call failed): one edge hub -> isolated node for
\* every node that was isolated when the fallback began.
RECURSIVE connectIsolated(_, _, _, _, _)
connectIsolated(E, isolated, i, hub, eid) ==
    IF i > Len(isolated)
    THEN [edges |-> E, eid |-> eid]
    ELSE connectIsolated(addEdge(E, eid, hub.id, isolated[i].id, "none", "relates to"),
                         isolated, i + 1, hub, eid + 1)

\* The edges the oracle proposed: skipped when an endpoint is not a node or
\* when an edge with the same source and target is already there.
RECURSIVE addProposedEdges(_, _, _, _, _)
addProposedEdges(N, E, proposed, i, eid) ==
    IF i > Len(proposed)
    THEN [edges |-> E, eid |-> eid]
    ELSE LET p          == proposed[i]
             edgeExists == \E j \in 1..Len(E) :
                               E[j].source = p.source /\ E[j].target = p.target
             rel        == IF p.relationship = "none" THEN "relates to"
                           ELSE p.relationship
         IN  IF p.source \notin NodeIds(N) \/ p.target \notin NodeIds(N) \/ edgeExists
             THEN addProposedEdges(N, E, proposed, i + 1, eid)
             ELSE addProposedEdges(N, addEdge(E, eid, p.source, p.target, "none", rel),
                                   proposed, i + 1, eid + 1)

\* Second fallback (after the oracle's edges): as the first, except that a
\* pair already joined in either direction is skipped.
RECURSIVE connectRemaining(_, _, _, _, _)
connectRemaining(E, isolated, i, hub, eid) ==
    IF i > Len(isolated)
    THEN [edges |-> E, eid |-> eid]
    ELSE LET wouldBeDuplicate ==
                 \E j \in 1..Len(E) :
                     \/ (E[j].source = hub.id /\ E[j].target = isolated[i].id)
                     \/ (E[j].source = isolated[i].id /\ E[j].target = hub.id)
         IN  IF wouldBeDuplicate
             THEN connectRemaining(E, isolated, i + 1, hub, eid)
             ELSE connectRemaining(
                      addEdge(E, eid, hub.id, isolated[i].id, "none", "relates to"),
                      isolated, i + 1, hub, eid + 1)

finalizeGraph(N, E, eid, outcome, hasEdgesToAdd, edgesToAdd) ==
    IF Len(N) = 0 \/ outcome \in {"noJson", "badJson"}
    THEN [nodes |-> N, edges |-> E, eid |-> eid]
    ELSE IF outcome \in {"throws", "empty"}
    THEN LET isolated == isolatedNodes(N, E)
             r == IF Len(isolated) > 0
                  THEN connectIsolated(E, isolated, 1, mostConnectedNode(N, E), eid)
                  ELSE [edges |-> E, eid |-> eid]
         IN  [nodes |-> recalculateTreeLayout(N, r.edges), edges |-> r.edges,
              eid |-> r.eid]
    ELSE LET r1 == IF hasEdgesToAdd THEN addProposedEdges(N, E, edgesToAdd, 1, eid)
                   ELSE [edges |-> E, eid |-> eid]
             isolated == isolatedNodes(N, r1.edges)
             r2 == IF Len(isolated) > 0
                   THEN connectRemaining(r1.edges, isolated, 1,
                                         mostConnectedNode(N, r1.edges), r1.eid)
                   ELSE r1
         IN  [nodes |-> recalculateTreeLayout(N, r2.edges), edges |-> r2.edges,
              eid |-> r2.eid]

\* ---- finalize-graph as the event loop runs it
\* The oracle's edges when currentGraph is the replaced object: the
\* endpoints are looked up in its nodes and the duplicate test reads its
\* edges, which the store's addEdge no longer reaches.
RECURSIVE addProposedEdgesDetached(_, _, _, _, _, _)
addProposedEdgesDetached(CN, CE, E, proposed, i, eid) ==
    IF i > Len(proposed)
    THEN [edges |-> E, eid |-> eid]
    ELSE LET p          == proposed[i]
             edgeExists == \E j \in 1..Len(CE) :
                               CE[j].source = p.source /\ CE[j].target = p.target
             rel        == IF p.relationship = "none" THEN "relates to"
                           ELSE p.relationship
         IN  IF p.source \notin NodeIds(CN) \/ p.target \notin NodeIds(CN) \/ edgeExists
             THEN addProposedEdgesDetached(CN, CE, E, proposed, i + 1, eid)
             ELSE addProposedEdgesDetached(CN, CE,
                      addEdge(E, eid, p.source, p.target, "none", rel),
                      proposed, i + 1, eid + 1)

\* The handler from its await on (566-871). f is the finalize record of the
\* event loop; N and E are the store.
finalizeAfterWait(f, N, E, eid, outcome, hasEdgesToAdd, edgesToAdd) ==
    LET CN == IF f.detached THEN f.nodes ELSE N
        CE == IF f.detached THEN f.edges ELSE E
    IN  IF outcome \in {"noJson", "badJson"}
        THEN [nodes |-> N, edges |-> E, eid |-> eid]
        ELSE IF outcome \in {"throws", "empty"}
        THEN LET isolated == isolatedNodes(CN, CE)
                 r == IF Len(isolated) > 0
                      THEN connectIsolated(E, isolated, 1, mostConnectedNode(CN, CE), eid)
                      ELSE [edges |-> E, eid |-> eid]
             IN  [nodes |-> recalculateTreeLayout(N, r.edges), edges |-> r.edges,
                  eid |-> r.eid]
        ELSE LET r1 == IF ~hasEdgesToAdd THEN [edges |-> E, eid |-> eid]
                       ELSE IF f.detached
                       THEN addProposedEdgesDetached(CN, CE, E, edgesToAdd, 1, eid)
                       ELSE addProposedEdges(N, E, edgesToAdd, 1, eid)
                 isolated == isolatedNodes(N, r1.edges)
                 r2 == IF Len(isolated) > 0
                       THEN connectRemaining(r1.edges, isolated, 1,
                                             mostConnectedNode(N, r1.edges), r1.eid)
                       ELSE r1
             IN  [nodes |-> recalculateTreeLayout(N, r2.edges), edges |-> r2.edges,
                  eid |-> r2.eid]

\* The invocation up to its await: an empty graph is answered at once,
\* otherwise the oracle is asked.
StartFinalize(lim) ==
    /\ CanInvoke(lim)
    /\ ~eventLoop.finalize.waiting
    /\ eventLoop' = IF Len(nodes) = 0 THEN eventLoop
                    ELSE [eventLoop EXCEPT !.finalize.waiting = TRUE]
    /\ steps' = steps + 1
    /\ last' = [NoOp EXCEPT !.op = "finalize-graph",
                            !.kind = IF Len(nodes) = 0 THEN "emptyGraph" ELSE "await"]
    /\ UNCHANGED <<nodes, edges, nextNodeId, nextEdgeId, transcriptHistory>>

\* The oracle's answer, or its failure, arrives for the waiting invocation.
ResumeFinalize(lim) ==
    /\ CanInvoke(lim)
    /\ eventLoop.finalize.waiting
    /\ \E outcome \in OracleOutcomes :
       \E hasEdgesToAdd \in IF outcome = "parsed" THEN BOOLEAN ELSE {FALSE} :
       \E edgesToAdd \in IF hasEdgesToAdd
                          THEN SeqsUpTo([source : RefPool \cup NodeIds(eventLoop.finalize.nodes),
                                         target : RefPool \cup NodeIds(eventLoop.finalize.nodes),
                                         relationship : {"none"}], lim.deltaEdges)
                          ELSE {<<>>} :
           \E r \in {finalizeAfterWait(eventLoop.finalize, nodes, edges, nextEdgeId,
                                       outcome, hasEdgesToAdd, edgesToAdd)} :
               /\ Within(lim, r.nodes, r.edges, nextNodeId, r.eid)
               /\ nodes' = r.nodes
               /\ edges' = r.edges
               /\ nextEdgeId' = r.eid
               /\ last' = [NoOp EXCEPT !.op = "finalize-graph",
                                       !.kind = outcome,
                                       !.ok = eventLoop.finalize.detached,
                                       !.deltaEdges = edgesToAdd]
    /\ eventLoop' = [eventLoop EXCEPT !.finalize = NoFinalize]
    /\ steps' = steps + 1
    /\ UNCHANGED <<nextNodeId, transcriptHistory>>

FinalizeGraph(lim) ==
    CanInvoke(lim) /\
    \E outcome \in OracleOutcomes :
    \E hasEdgesToAdd \in IF outcome = "parsed" THEN BOOLEAN ELSE {FALSE} :
    \E edgesToAdd \in IF hasEdgesToAdd THEN ProposedEdges(lim.deltaEdges) ELSE {<<>>} :
        /\ \E r \in {finalizeGraph(nodes, edges, nextEdgeId, outcome,
                                  hasEdgesToAdd, edgesToAdd)} :
               /\ Within(lim, r.nodes, r.edges, nextNodeId, r.eid)
               /\ nodes' = r.nodes
               /\ edges' = r.edges
               /\ nextEdgeId' = r.eid
               /\ Invoke
               /\ last' = [NoOp EXCEPT !.op = "finalize-graph",
                                       !.kind = IF Len(nodes) = 0 THEN "emptyGraph"
                                                ELSE outcome,
                                       !.isolated = Len(isolatedNodes(nodes, edges)),
                                       !.deltaEdges = edgesToAdd]
               /\ UNCHANGED nextNodeId

\* ===================================== the depth calculation on given graphs

\* A graph as the store holds it after n nodes and the edges ends[1..] have
\* been added through addNode and addEdge.
StoredNodes(n) ==
    [i \in 1..n |-> [id |-> i, label |-> LabelPool[3], importance |-> "small",
                     topLabel |-> Undefined,
                     x |-> GridPosition(i - 1).x, y |-> GridPosition(i - 1).y]]

StoredEdges(ends) ==
    [i \in 1..Len(ends) |-> [id |-> i, source |-> ends[i].source,
                             target |-> ends[i].target, label |-> "none",
                             relationship |-> "none"]]

\* Every edge list of up to maxEdges edges on n nodes: any node or an
\* identifier that is no node as source, any node as target (self-loops,
\* parallel edges and cycles included).
SmallGraphEdges(n, maxEdges) ==
    SeqsUpTo([source : 0..n, target : 1..n], maxEdges)

\* The chain 1 -> 2 -> ... -> n, alone (extra = 0) or followed by one more
\* edge from the node extra to the node 1.
ChainEdges(n, extra) ==
    [i \in 1..(n - 1) |-> [source |-> i, target |-> i + 1]]
        \o (IF extra = 0 THEN <<>> ELSE <<[source |-> extra, target |-> 1]>>)

DepthGraphs ==
    {[n |-> MaxDepthNodes, ends |-> ends] :
         ends \in SmallGraphEdges(MaxDepthNodes, MaxDepthEdges)}
        \cup UNION {{[n |-> n, ends |-> ChainEdges(n, extra)] : extra \in {0, 1, n}} :
                       n \in 2..MaxChain}

InitDepth ==
    /\ \E g \in DepthGraphs :
           /\ nodes = StoredNodes(g.n)
           /\ edges = StoredEdges(g.ends)
    /\ nextNodeId = Len(nodes) + 1
    /\ nextEdgeId = Len(edges) + 1
    /\ last = NoOp
    /\ steps = 0
    /\ transcriptHistory = <<>>
    /\ eventLoop = NoTasks

\* Large nodes that callers placed on a lattice of 450 by 300 pixels over the
\* whole area the spiral reaches: 9 columns from x = -1500, 14 rows from
\* y = -1700.
WallNodes ==
    [k \in 1..126 |->
        [id |-> k, label |-> LabelPool[3], importance |-> "large",
         x |-> Px(-1500 + 450 * ((k - 1) % 9)),
         y |-> Px(-1700 + 300 * ((k - 1) \div 9)),
         w |-> Px(300), h |-> Px(150)]]

\* The spiral store is empty or holds the lattice.
InitSpiral ==
    /\ nodes \in {<<>>, WallNodes}
    /\ edges = <<>>
    /\ nextNodeId = Len(nodes) + 1
    /\ nextEdgeId = 1
    /\ last = NoOp
    /\ steps = 0
    /\ transcriptHistory = <<>>
    /\ eventLoop = NoTasks

\* The graphs the finalize pass is applied to: up to MaxHubNodes nodes and
\* every list of up to MaxHubEdges edges between them.
HubGraphs ==
    UNION {[n : {n}, ends : SeqsUpTo([source : 1..n, target : 1..n], MaxHubEdges)] :
              n \in 1..MaxHubNodes}

InitHub ==
    /\ \E g \in HubGraphs :
           /\ nodes = StoredNodes(g.n)
           /\ edges = StoredEdges(g.ends)
    /\ nextNodeId = Len(nodes) + 1
    /\ nextEdgeId = Len(edges) + 1
    /\ last = NoOp
    /\ steps = 0
    /\ transcriptHistory = <<>>
    /\ eventLoop = NoTasks

Parents(E, n) == {E[i].source : i \in {j \in 1..Len(E) : E[j].target = n}}

\* The least set that holds S and the parents of its members.
RECURSIVE AncestorsOf(_, _)
AncestorsOf(E, S) ==
    LET P == UNION {Parents(E, n) : n \in S}
    IN  IF P \subseteq S THEN S ELSE AncestorsOf(E, S \cup P)

\* n is among its own ancestors exactly when a cycle passes through n.
Ancestors(E, n) == AncestorsOf(E, Parents(E, n))

Acyclic(E) == \A i \in 1..Len(E) : E[i].target \notin Ancestors(E, E[i].target)

\* Every acyclic edge list of up to MaxDagEdges edges on MaxDagNodes nodes.
DagEdges ==
    {ends \in SmallGraphEdges(MaxDagNodes, MaxDagEdges) : Acyclic(StoredEdges(ends))}

InitDepthDag ==
    /\ \E ends \in DagEdges :
           /\ nodes = StoredNodes(MaxDagNodes)
           /\ edges = StoredEdges(ends)
    /\ nextNodeId = Len(nodes) + 1
    /\ nextEdgeId = Len(edges) + 1
    /\ last = NoOp
    /\ steps = 0
    /\ transcriptHistory = <<>>
    /\ eventLoop = NoTasks

\* calculateNodeDepth(nodeId) with a new visited set, as recalculateTreeLayout
\* and getHierarchyStats call it for each node.
CalculateNodeDepth ==
    \E nodeId \in NodeIds(nodes) :
        \E r \in {DepthRec(edges, nodeId, {})} :
            /\ last' = [NoOp EXCEPT !.op = "depth", !.arg = nodeId,
                                    !.depth = calculateNodeDepth(edges, nodeId),
                                    !.calls = r.calls]
            /\ UNCHANGED <<nodes, edges, nextNodeId, nextEdgeId, steps, transcriptHistory,
                         eventLoop>>

\* ======================================= the duplicate test on given labels

DedupLabels == SeqsUpTo(Tokens, MaxLabelLen)

\* The store holds one node, with any label.
InitDedup ==
    /\ \E label \in DedupLabels :
           nodes = addNode(<<>>, 1, label, "none", FALSE, [x |-> 0, y |-> 0])
    /\ edges = <<>>
    /\ nextNodeId = 2
    /\ nextEdgeId = 1
    /\ last = NoOp
    /\ steps = 0
    /\ transcriptHistory = <<>>
    /\ eventLoop = NoTasks

\* The callback of currentGraph.nodes.some(...) applied to the node of the
\* store and a candidate label.
DuplicateTest ==
    \E label \in DedupLabels :
        /\ last' = [NoOp EXCEPT !.op = "dedup", !.label = label,
                                !.ok = similarLabels(nodes[1].label, label)]
        /\ UNCHANGED <<nodes, edges, nextNodeId, nextEdgeId, steps, transcriptHistory,
                         eventLoop>>

\* ================================================= the OpenRouter service

MaxChatCalls     == 1
MaxThrottleCalls == 2

ChatLimits     == [calls |-> MaxChatCalls]
ThrottleLimits == [calls |-> MaxThrottleCalls]

\* The model argument of chat: left out, the empty string, or a model's name.
ChatModels == {"undefined", "", "google/gemini-2.0-flash-exp:free"}

\* What a request can come to: a response whose first choice has content, a
\* response whose first choice has none, a response without a choices array
\* (reading choices[0] throws inside the try block), a rejected request.
RequestOutcomes == {"content", "empty", "noChoices", "error"}

\* modelsToTry with the free models first
modelsToTryFreeFirst(model) ==
    IF model \notin {"undefined", ""} THEN <<model>> ELSE freeModels \o paidModels

\* chat, line 56: model ? [model] : [...paidModels, ...freeModels]
modelsToTry(model) ==
    IF model \notin {"undefined", ""} THEN <<model>> ELSE paidModels \o freeModels

NewCall(model) ==
    [model |-> model, pc |-> "start", next |-> 1, remaining |-> 0,
     contacted |-> <<>>, failures |-> 0, content |-> "", result |-> ""]

\* The throttle's last statement and the axios.post that follows it:
\* lastRequestTime = Date.now(), and the request for currentModel leaves.
sendRequest(o, i) ==
    [o EXCEPT !.since = 0,
              !.calls[i].pc = "request",
              !.calls[i].contacted =
                  Append(@, modelsToTry(o.calls[i].model)[o.calls[i].next])]

\* throttle up to its await: the age of lastRequestTime is read; below the
\* interval the call sleeps for the rest of it, otherwise it goes on at once.
throttle(o, i) ==
    IF o.since < minRequestInterval
    THEN [o EXCEPT !.calls[i].pc = "sleep",
                   !.calls[i].remaining = minRequestInterval - o.since]
    ELSE sendRequest(o, i)

\* The loop of chat after the request for currentModel has settled.
requestSettled(o, i, outcome) ==
    LET c      == o.calls[i]
        models == modelsToTry(c.model)
        text   == IF outcome = "content" THEN models[c.next] ELSE ""
    IN  IF outcome \in {"content", "empty"}
        THEN [o EXCEPT !.calls[i].pc = "returned",
                       !.calls[i].content = text,
                       !.calls[i].result =
                           IF text = "" THEN "No response generated" ELSE text]
        ELSE IF c.next = Len(models)
        THEN [o EXCEPT !.calls[i].pc = "thrown",
                       !.calls[i].failures = @ + 1,
                       !.calls[i].result =
                           "All models failed. Please try again later."]
        ELSE throttle([o EXCEPT !.calls[i].failures = @ + 1,
                                !.calls[i].next = @ + 1], i)

ChatFrame == UNCHANGED <<nodes, edges, nextNodeId, nextEdgeId, steps, transcriptHistory>>

\* A caller invokes chat; the call runs to its first await or throws.
StartChat(lim) ==
    LET o == eventLoop.openRouter
        i == Len(o.calls) + 1
    IN  /\ Len(o.calls) < lim.calls
        /\ \E model \in ChatModels :
             /\ eventLoop' =
                  [eventLoop EXCEPT !.openRouter =
                     IF ~o.apiKey
                     THEN [o EXCEPT !.calls =
                             Append(@, [NewCall(model) EXCEPT
                                 !.pc = "thrown",
                                 !.result = "OpenRouter API key not configured"])]
                     ELSE throttle([o EXCEPT !.calls = Append(@, NewCall(model))], i)]
             /\ last' = [NoOp EXCEPT !.op = "chat", !.kind = "start", !.arg = i]
             /\ ChatFrame

\* The timer of a sleeping call fires and its throttle finishes.
TimerFires ==
    LET o == eventLoop.openRouter
    IN  \E i \in 1..Len(o.calls) :
          /\ o.calls[i].pc = "sleep"
          /\ o.calls[i].remaining = 0
          /\ eventLoop' = [eventLoop EXCEPT !.openRouter = sendRequest(o, i)]
          /\ last' = [NoOp EXCEPT !.op = "chat", !.kind = "timer", !.arg = i]
          /\ ChatFrame

\* The request of a call settles and the call goes on from its await.
RequestSettles ==
    LET o == eventLoop.openRouter
    IN  \E i \in 1..Len(o.calls) :
        \E outcome \in RequestOutcomes :
          /\ o.calls[i].pc = "request"
          /\ eventLoop' = [eventLoop EXCEPT !.openRouter = requestSettled(o, i, outcome)]
          /\ last' = [NoOp EXCEPT !.op = "chat", !.kind = outcome, !.arg = i]
          /\ ChatFrame

\* A second passes. A timer that is due fires before the next second starts.
Tick ==
    LET o == eventLoop.openRouter
        sleeping == {i \in 1..Len(o.calls) : o.calls[i].pc = "sleep"}
    IN  /\ \A i \in sleeping : o.calls[i].remaining > 0
        /\ o.since < minRequestInterval \/ sleeping # {}
        /\ eventLoop' =
             [eventLoop EXCEPT !.openRouter =
                [o EXCEPT !.since = Min(@ + 1, minRequestInterval),
                          !.calls = [i \in 1..Len(o.calls) |->
                                       IF i \in sleeping
                                       THEN [o.calls[i] EXCEPT !.remaining = @ - 1]
                                       ELSE o.calls[i]]]]
        /\ last' = [NoOp EXCEPT !.op = "chat", !.kind = "tick"]
        /\ ChatFrame

\* The service as constructed, with or without OPENROUTER_API_KEY set.
InitChat ==
    /\ nodes = <<>>
    /\ edges = <<>>
    /\ nextNodeId = 1
    /\ nextEdgeId = 1
    /\ last = NoOp
    /\ steps = 0
    /\ transcriptHistory = <<>>
    /\ \E key \in BOOLEAN :
          eventLoop = [NoTasks EXCEPT !.openRouter.apiKey = key]

\* ========================================================== specifications

\* The handlers that act on the store directly.
StoreNext ==
    \/ AddNodeEndpoint(StoreLimits)
    \/ AddEdgeEndpoint(StoreLimits)
    \/ MergeEndpoint(StoreLimits)
    \/ ClearGraph(StoreLimits)
    \/ RemoveNode(StoreLimits)
    \/ RemoveEdge(StoreLimits)
    \/ UpdateNode(StoreLimits)
    \/ RestructureGraph(StoreLimits)

SpecStore == Init /\ [][StoreNext]_vars

\* The handlers that fold a proposed delta into the store.
DeltaNext ==
    \/ ProcessTranscript(DeltaLimits)
    \/ FunctionCall(DeltaLimits)
    \/ ProcessText(DeltaLimits)
    \/ ClearGraph(DeltaLimits)
    \/ RemoveNode(DeltaLimits)

SpecDelta == Init /\ [][DeltaNext]_vars

\* The finalize pass on the graphs the store handlers build.
FinalizeNext ==
    \/ FinalizeGraph(FinalizeLimits)
    \/ AddNodeEndpoint(FinalizeLimits)
    \/ AddEdgeEndpoint(FinalizeLimits)
    \/ RemoveNode(FinalizeLimits)
    \/ ClearGraph(FinalizeLimits)

SpecFinalize == Init /\ [][FinalizeNext]_vars

\* Transcripts stored and nodes and edges added, with clears between.
ClearNext ==
    \/ VapiWebhook(ClearLimits)
    \/ ProcessTranscript(ClearLimits)
    \/ AddNodeEndpoint(ClearLimits)
    \/ AddEdgeEndpoint(ClearLimits)
    \/ ClearGraph(ClearLimits)

SpecClear == Init /\ [][ClearNext]_vars

\* Refinements of stores built through the node and edge endpoints.
RefineNext ==
    \/ AddNodeEndpoint(RefineLimits)
    \/ AddEdgeEndpoint(RefineLimits)
    \/ RefineGraph(RefineLimits)

SpecRefine == Init /\ [][RefineNext]_vars

\* process-transcript invocations interleaved with each other and with the
\* handlers that remove, clear and replace.
LoopNext ==
    \/ StartTranscript(LoopLimits)
    \/ ResumeTranscript(LoopLimits)
    \/ ContinueTranscript(LoopLimits)
    \/ RemoveNode(LoopLimits)
    \/ ClearGraph(LoopLimits)
    \/ RestructureGraph(LoopLimits)

SpecLoop == Init /\ [][LoopNext]_vars

\* The two ingestion paths whose edges name their endpoints by label.
LabelsNext ==
    \/ FunctionCall(LabelsLimits)
    \/ ProcessText(LabelsLimits)

SpecLabels == Init /\ [][LabelsNext]_vars

\* Merges of nodes whose edges came from deltas.
MergeNext ==
    \/ AddNodeEndpoint(MergeLimits)
    \/ ProcessTranscript(MergeLimits)
    \/ MergeEndpoint(MergeLimits)

SpecMerge == Init /\ [][MergeNext]_vars

\* A finalize pass that waits for the oracle while other handlers run.
StaleNext ==
    \/ AddNodeEndpoint(StaleLimits)
    \/ StartFinalize(StaleLimits)
    \/ ResumeFinalize(StaleLimits)
    \/ ClearGraph(StaleLimits)
    \/ RestructureGraph(StaleLimits)
    \/ RemoveNode(StaleLimits)

SpecStale == Init /\ [][StaleNext]_vars

\* The operations that look a node or an edge up by its id, on stores built
\* through the endpoints and restructure-graph.
LookupNext ==
    \/ AddNodeEndpoint(LookupLimits)
    \/ AddEdgeEndpoint(LookupLimits)
    \/ RestructureGraph(LookupLimits)
    \/ RemoveNode(LookupLimits)
    \/ RemoveEdge(LookupLimits)
    \/ UpdateNode(LookupLimits)

SpecLookup == Init /\ [][LookupNext]_vars

\* Nodes and edges added through the endpoints, with layout calls between.
LayoutNext ==
    \/ AddNodeEndpoint(LayoutLimits)
    \/ AddEdgeEndpoint(LayoutLimits)
    \/ RecalculateTreeLayout(LayoutLimits)

SpecLayout == Init /\ [][LayoutNext]_vars

\* Runs of addNode calls of the spiral GraphService.
SpecSpiral == InitSpiral /\ [][AddNodeSpiral]_vars

\* Runs of addNode and removeNode calls of
\* src/backend/src/services/graph.service.ts.
GridNext == AddNodeV1 \/ RemoveNodeV1

SpecGrid == Init /\ [][GridNext]_vars

\* Runs of addEdge calls of src/backend/src/services/graph.service.ts.
SpecEdgeIds == Init /\ [][AddEdgeV1]_vars

\* process-transcript with deltas of up to MaxBatch nodes and no edges.
BatchNext == ProcessTranscript(BatchLimits)

SpecBatch == Init /\ [][BatchNext]_vars

\* calculateNodeDepth on every graph of DepthGraphs.
SpecDepth == InitDepth /\ [][CalculateNodeDepth]_vars

\* calculateNodeDepth on every acyclic graph of DagEdges.
SpecDepthDag == InitDepthDag /\ [][CalculateNodeDepth]_vars

\* One finalize pass on every graph of HubGraphs.
SpecHub == InitHub /\ [][FinalizeGraph(HubLimits)]_vars

\* The duplicate test on every pair of labels of DedupLabels.
SpecDedup == InitDedup /\ [][DuplicateTest]_vars

\* Chat calls on the one OpenRouter service.
ChatNext(lim) ==
    \/ StartChat(lim)
    \/ TimerFires
    \/ RequestSettles
    \/ Tick

SpecChat == InitChat /\ [][ChatNext(ChatLimits)]_vars

\* Time passes, a due timer fires, and every request sent settles.
SpecChatFair ==
    /\ SpecChat
    /\ WF_vars(Tick)
    /\ WF_vars(TimerFires)
    /\ WF_vars(RequestSettles)

\* Chat calls in flight together.
SpecThrottle == InitChat /\ [][ChatNext(ThrottleLimits)]_vars

\* ============================================================== properties

\* ---- the store (SpecStore)

\* C1 (cascade delete): when removeNode(n) has returned true, n is the id of
\* no node of the graph and no edge of the graph has n as its source or as
\* its target.
CascadeDelete ==
    (last.op = "remove-node" /\ last.ok) =>
        /\ last.arg \notin NodeIds(nodes)
        /\ \A i \in 1..Len(edges) :
               edges[i].source # last.arg /\ edges[i].target # last.arg

\* The edge obtained from e by putting M in the place of its endpoints in S.
Reparented(e, S, M) ==
    [source |-> IF e.source \in S THEN M ELSE e.source,
     target |-> IF e.target \in S THEN M ELSE e.target]

Ends(e) == [source |-> e.source, target |-> e.target]

\* C4 (merge): a successful mergeNodes(S, label) into the new node M gives
\* every edge that had exactly one endpoint in S a counterpart with that
\* endpoint replaced by M, removes every edge that had both endpoints in S,
\* leaves every edge that had no endpoint in S as it was, and leaves no edge
\* with an endpoint in S.
MergeEdges ==
    [][ (last'.op = "merge" /\ last'.ok /\ steps' = steps + 1) =>
          LET S == last'.S
              M == last'.arg
          IN  /\ \A i \in 1..Len(edges) :
                    (edges[i].source \in S) # (edges[i].target \in S) =>
                        \E j \in 1..Len(edges') :
                            Ends(edges'[j]) = Reparented(edges[i], S, M)
              /\ \A i \in 1..Len(edges) :
                    (edges[i].source \in S /\ edges[i].target \in S) =>
                        edges[i] \notin Range(edges')
              /\ \A i \in 1..Len(edges) :
                    (edges[i].source \notin S /\ edges[i].target \notin S) =>
                        edges[i] \in Range(edges')
              /\ \A j \in 1..Len(edges') :
                    edges'[j].source \notin S /\ edges'[j].target \notin S
      ]_vars

\* ---- the finalize pass (SpecFinalize)

FinalizeLeavesNoIsolated ==
    (last.op = "finalize-graph" /\ last.kind # "emptyGraph") =>
        Len(isolatedNodes(nodes, edges)) = 0

\* ---- the depth calculation (SpecDepthDag, SpecDepth)

\* In an acyclic graph: the number of edges of the longest path that ends
\* at n.
RECURSIVE LongestPath(_, _)
LongestPath(E, n) ==
    IF Parents(E, n) = {} THEN 0
    ELSE LET longest == CHOOSE p \in Parents(E, n) :
                            \A q \in Parents(E, n) : LongestPath(E, q) <= LongestPath(E, p)
         IN  1 + LongestPath(E, longest)

\* C5 (depth monotonicity): in an acyclic graph whose longest path has at
\* most MAX_TREE_DEPTH edges, the depth calculated for a node is at least
\* one more than the depth calculated for the source of each of its incoming
\* edges whose source is a node.
DepthMonotone ==
    (/\ last.op = "depth"
     /\ Acyclic(edges)
     /\ \A n \in NodeIds(nodes) : LongestPath(edges, n) <= MAX_TREE_DEPTH) =>
        \A i \in 1..Len(edges) :
            (edges[i].target = last.arg /\ edges[i].source \in NodeIds(nodes)) =>
                last.depth >= calculateNodeDepth(edges, edges[i].source) + 1

\* C6 (depth is the capped longest path): in an acyclic graph the depth
\* calculated for a node is 0 when it has no incoming edge and otherwise
\* the length of the longest path that ends at it, capped at MAX_TREE_DEPTH.
DepthIsLongestPath ==
    (last.op = "depth" /\ Acyclic(edges)) =>
        last.depth = Min(MAX_TREE_DEPTH, LongestPath(edges, last.arg))

\* C7 (depth terminates within the cap): on every graph, cyclic or not,
\* calculateNodeDepth returns an integer from 0 to MAX_TREE_DEPTH after at
\* most one invocation per edge besides the first.
DepthTerminatesInRange ==
    last.op = "depth" =>
        /\ last.depth \in 0..MAX_TREE_DEPTH
        /\ last.calls <= 1 + Len(edges)

\* The depth of a node on a cycle of more than MAX_TREE_DEPTH nodes has been
\* calculated and is the cap.
DepthTerminatesInRangeWitness ==
    /\ last.op = "depth"
    /\ last.arg \in Ancestors(edges, last.arg)
    /\ Len(edges) > MAX_TREE_DEPTH + 1
    /\ last.depth = MAX_TREE_DEPTH

\* ---- the delta handlers (SpecDelta)

DeltaHandlers == {"process-transcript", "function-call", "process-text"}

\* C8 (delta edges resolve): every edge that a delta handler has added has a
\* source and a target that are ids of nodes of the graph.
DeltaEdgesResolved ==
    [][ (last'.op \in DeltaHandlers /\ steps' = steps + 1) =>
          \A j \in 1..Len(edges') :
              edges'[j].id >= nextEdgeId =>
                  /\ edges'[j].source \in NodeIds(nodes')
                  /\ edges'[j].target \in NodeIds(nodes')
      ]_vars

\* C9 (malformed delta rejected as a whole): when the oracle's response holds
\* no JSON object, holds unparseable JSON, or parses to an object without a
\* nodes array, process-transcript leaves the nodes and the edges as they
\* were.
MalformedDeltaRejected ==
    [][ (/\ last'.op = "process-transcript"
         /\ last'.kind \in {"noJson", "badJson", "edges", "neither"}
         /\ steps' = steps + 1) =>
          (nodes' = nodes /\ edges' = edges)
      ]_vars

\* ---- the duplicate test (SpecDedup)

\* The set of the tokens of more than 3 characters of the lowercased label.
TokenSet(label) == Range(words(toLowerCase(label)))

\* The reference: equal ignoring case, or both token sets non-empty and
\* |A \cap B| / min(|A|, |B|) > 0.6.
ReferenceDuplicate(existing, new) ==
    LET A == TokenSet(existing)
        B == TokenSet(new)
    IN  \/ toLowerCase(existing) = toLowerCase(new)
        \/ /\ A # {}
           /\ B # {}
           /\ 10 * Cardinality(A \cap B) > 6 * Min(Cardinality(A), Cardinality(B))

\* C10 (duplicate test equals the set-based reference): for every pair of
\* labels the duplicate test answers as the reference does.
DuplicateTestIsReference ==
    last.op = "dedup" => (last.ok = ReferenceDuplicate(nodes[1].label, last.label))

\* ---- the duplicate filter within a delta (SpecBatch)

\* The label is a duplicate, by the duplicate test, of a node of N.
DupOfCommitted(N, label) ==
    \E i \in 1..Len(N) : similarLabels(N[i].label, label)

\* A proposed node that carries a label and duplicates no node of N.
Fresh(N, label) == label # Undefined /\ ~DupOfCommitted(N, label)

\* The labels of the nodes that N1 holds after those of N.
AddedLabels(N, N1) == [k \in 1..(Len(N1) - Len(N)) |-> N1[Len(N) + k].label]

NodeDeltas == {"nodes", "nodes+edges"}

\* C11 (duplicates skipped, the others inserted): when a delta proposes a
\* node whose label duplicates a node already in the graph, the nodes the
\* handler adds are exactly the labelled proposed nodes that duplicate no
\* node already in the graph, in the order proposed.
DuplicatesSkippedOthersInserted ==
    [][ (/\ last'.op = "process-transcript"
         /\ last'.kind \in NodeDeltas
         /\ steps' = steps + 1
         /\ \E i \in 1..Len(last'.delta) :
                last'.delta[i] # Undefined /\ DupOfCommitted(nodes, last'.delta[i])) =>
          AddedLabels(nodes, nodes') =
              SelectSeq(last'.delta, LAMBDA l : Fresh(nodes, l))
      ]_vars

\* C12 (candidates are not compared with each other): when two nodes of one
\* delta have identical or near-identical labels and neither duplicates a
\* node that was in the graph before the delta, both are inserted.
BatchCandidatesBothInserted ==
    [][ (/\ last'.op = "process-transcript"
         /\ last'.kind \in NodeDeltas
         /\ steps' = steps + 1) =>
          \A i, j \in 1..Len(last'.delta) :
              (/\ i < j
               /\ Fresh(nodes, last'.delta[i])
               /\ Fresh(nodes, last'.delta[j])
               /\ similarLabels(last'.delta[i], last'.delta[j])) =>
                  Cardinality({k \in 1..(Len(nodes') - Len(nodes)) :
                                  AddedLabels(nodes, nodes')[k]
                                      \in {last'.delta[i], last'.delta[j]}}) >= 2
      ]_vars

\* ---- layout (SpecLayout)

\* C13 (the layout is idempotent): a layout call that directly follows a
\* layout call, nodes and edges not otherwise changed between the two, leaves
\* every node at the position the first call gave it.
LayoutIdempotent ==
    [][ (last.op = "layout" /\ last'.op = "layout" /\ steps' = steps + 1) =>
          /\ Len(nodes') = Len(nodes)
          /\ \A i \in 1..Len(nodes) :
                 nodes'[i].x = nodes[i].x /\ nodes'[i].y = nodes[i].y
      ]_vars

\* A second layout call in a row has run on a graph of two rows whose nodes
\* the layout has moved off the positions addNode gave them.
LayoutIdempotentWitness ==
    /\ last.op = "layout"
    /\ last.kind = "repeat"
    /\ Len(nodes) >= 3
    /\ \E i, j \in 1..Len(nodes) : nodes[i].y # nodes[j].y
    /\ \A i \in 1..Len(nodes) :
           [x |-> nodes[i].x, y |-> nodes[i].y] # GridPosition(i - 1)

\* ---- depth and the order of the edges (SpecDepthDag)

\* The edge lists that hold the edges of E in another order.
Reorderings(E) ==
    {[i \in 1..Len(E) |-> E[p[i]]] :
        p \in {q \in [1..Len(E) -> 1..Len(E)] :
                  \A i, j \in 1..Len(E) : i # j => q[i] # q[j]}}

\* C14 (depth is structural): the depth calculateNodeDepth returns for a node
\* is the depth it returns for that node on every graph that has the same
\* nodes and the same edges inserted in another order.
DepthIgnoresEdgeOrder ==
    last.op = "depth" =>
        \A E \in Reorderings(edges) : calculateNodeDepth(E, last.arg) = last.depth

\* ---- identifiers (SpecStore for nodes, SpecEdgeIds for edges)

\* C15 (node ids are unique): in every state the store operations reach, no
\* two nodes of the graph have the same id.
NodeIdsUnique ==
    \A i, j \in 1..Len(nodes) : nodes[i].id = nodes[j].id => i = j

\* C16 (addEdge assigns a fresh unique id): after any sequence of addEdge
\* calls, repeated calls with the same source and target included, no two
\* edges of the graph have the same id.
EdgeIdsUnique ==
    \A i, j \in 1..Len(edges) : edges[i].id = edges[j].id => i = j

\* ---- requests that must fail (SpecStore, SpecLookup)

\* C17 (an invalid merge fails whole): a merge request that names fewer than
\* two node ids, or fewer than two ids of nodes of the graph, fails and leaves
\* the nodes and the edges as they were.
InvalidMergeFails ==
    [][ (/\ last'.op = "merge"
         /\ steps' = steps + 1
         /\ \/ Cardinality(last'.S) < 2
            \/ Cardinality(last'.S \cap NodeIds(nodes)) < 2) =>
          (~last'.ok /\ nodes' = nodes /\ edges' = edges)
      ]_vars

\* C18 (an unknown id is answered with the not-found result): removeNode and
\* updateNode called with an id that no node has, and removeEdge called with
\* an id that no edge has, return false and leave the nodes and the edges as
\* they were.
UnknownIdChangesNothing ==
    [][ (/\ steps' = steps + 1
         /\ \/ last'.op \in {"remove-node", "update-node"}
               /\ last'.arg \notin NodeIds(nodes)
            \/ last'.op = "remove-edge" /\ last'.arg \notin NodeIds(edges)) =>
          (~last'.ok /\ nodes' = nodes /\ edges' = edges)
      ]_vars

\* updateNode has been called with an unknown id on a store that holds an
\* edge from that id to a node.
UnknownIdChangesNothingWitness ==
    /\ last.op = "update-node"
    /\ ~last.ok
    /\ last.arg \notin NodeIds(nodes)
    /\ \E i \in 1..Len(edges) :
           edges[i].source = last.arg /\ edges[i].target \in NodeIds(nodes)

\* ---- clear (SpecClear)

\* C19 (a clear empties everything): after a clear through either entry
\* point the nodes, the edges and the transcript history are all empty.
ClearEmptiesAll ==
    last.op \in {"clear-graph", "api-clear"} =>
        (nodes = <<>> /\ edges = <<>> /\ transcriptHistory = <<>>)

\* ---- replaceGraph and addNode (SpecStore)

\* C20 (replaceGraph positions nodes as addNode would): after replaceGraph,
\* each node (the input nodes carry no position) is at the position addNode
\* gives the node inserted at that index, so the nodes are at pairwise
\* distinct positions.
ReplaceGraphPositionsLikeAddNode ==
    last.op = "restructure-graph" =>
        /\ \A i \in 1..Len(nodes) :
               [x |-> nodes[i].x, y |-> nodes[i].y] = GridPosition(i - 1)
        /\ \A i, j \in 1..Len(nodes) :
               (nodes[i].x = nodes[j].x /\ nodes[i].y = nodes[j].y) => i = j

\* ---- layout after a merge (SpecStore)

\* C21 (a merge is followed by a layout): when POST /api/graph/merge has
\* merged, every node, the merged node included, is at the position
\* recalculateTreeLayout assigns for the graph as it then is.
MergeThenLayout ==
    (last.op = "merge" /\ last.ok) =>
        \A i \in 1..Len(nodes) :
            /\ nodes[i].x = recalculateTreeLayout(nodes, edges)[i].x
            /\ nodes[i].y = recalculateTreeLayout(nodes, edges)[i].y

\* ---- refinements (SpecRefine)

\* C22 (an update changes the label): when a refinement has an entry
\* {id, newLabel} for the id of a node of the graph that the refinement does
\* not remove, the graph afterwards holds a node with that id whose
\* data.label is newLabel.
RefineUpdatesLabel ==
    [][ (/\ last'.op = "refine-graph"
         /\ last'.kind = "parsed"
         /\ steps' = steps + 1) =>
          \A k \in 1..Len(last'.delta) :
              (/\ last'.delta[k].id \in NodeIds(nodes)
               /\ last'.delta[k].id \notin last'.S) =>
                  \E i \in 1..Len(nodes') :
                      /\ nodes'[i].id = last'.delta[k].id
                      /\ nodes'[i].label = last'.delta[k].newLabel
      ]_vars

\* ---- the report of a delta (SpecDelta)

\* C23 (the report accounts for every proposed entry): in the report of a
\* delta every proposed node and every proposed edge is in the added lists or
\* in the skipped list, and the lists together have as many entries as the
\* delta proposed; a node rejected as a duplicate is in the skipped list.
ReportAccountsForDelta ==
    [][ (/\ last'.op = "process-transcript"
         /\ last'.kind \in {"nodes", "nodes+edges", "edges"}
         /\ last'.ok
         /\ steps' = steps + 1) =>
          LET report == last'.report
          IN  /\ \A k \in 1..Len(last'.delta) :
                     \/ last'.delta[k] \in Range(report.nodes)
                     \/ last'.delta[k] \in Range(report.skipped)
              /\ \A k \in 1..Len(last'.deltaEdges) :
                     \/ [source |-> last'.deltaEdges[k].source,
                         target |-> last'.deltaEdges[k].target] \in Range(report.edges)
                     \/ last'.deltaEdges[k] \in Range(report.skipped)
              /\ Len(report.nodes) + Len(report.edges) + Len(report.skipped)
                     = Len(last'.delta) + Len(last'.deltaEdges)
      ]_vars

\* ---- a delta is applied whole (SpecBatch)

\* The labels of N followed by the labelled entries among the first k of delta.
SeenBefore(N, delta, k) ==
    [i \in 1..Len(N) |-> N[i].label]
        \o SelectSeq(SubSeq(delta, 1, k - 1), LAMBDA l : l # Undefined)

\* C24 (no abort in the middle of a delta): the handler completes for every
\* parsed delta; every labelled entry that resembles neither a node of the
\* graph nor an earlier entry of the delta is inserted, whatever malformed
\* entries the delta holds; and the layout has been recalculated when a node
\* was inserted.
DeltaNeverAborts ==
    [][ (/\ last'.op = "process-transcript"
         /\ last'.kind \in NodeDeltas
         /\ steps' = steps + 1) =>
          /\ last'.ok
          /\ \A k \in 1..Len(last'.delta) :
                 (/\ last'.delta[k] # Undefined
                  /\ \A l \in Range(SeenBefore(nodes, last'.delta, k)) :
                         ~similarLabels(l, last'.delta[k])) =>
                     last'.delta[k] \in Range(AddedLabels(nodes, nodes'))
          /\ Len(nodes') > Len(nodes) => nodes' = recalculateTreeLayout(nodes', edges')
      ]_vars

\* ---- the event loop (SpecLoop)

IdsOfLabel(N, N1, label) ==
    {N1[i].id : i \in {j \in (Len(N) + 1)..Len(N1) : N1[j].label = label}}

\* C26 (labels are resolved to the ids of the delta's own nodes): in the
\* updateGraph function call and in process-text, an edge of the delta whose
\* source and target are labels of nodes of the same delta is stored with the
\* ids the store gave nodes carrying those labels.
LabelledEdgesResolved ==
    [][ (/\ last'.op \in {"function-call", "process-text"}
         /\ last'.ok
         /\ steps' = steps + 1) =>
          \A k \in 1..Len(last'.deltaEdges) :
              LET p == last'.deltaEdges[k]
                  e == edges'[Len(edges) + k]
              IN  (/\ p.source.isLabel /\ p.source.label \in Range(last'.delta)
                   /\ p.target.isLabel /\ p.target.label \in Range(last'.delta)) =>
                      /\ e.source \in IdsOfLabel(nodes, nodes', p.source.label)
                      /\ e.target \in IdsOfLabel(nodes, nodes', p.target.label)
      ]_vars

\* A function call has stored an edge between two nodes of its own delta that
\* the delta named by their two different labels.
LabelledEdgesResolvedWitness ==
    /\ last.op = "function-call"
    /\ last.ok
    /\ \E k \in 1..Len(last.deltaEdges) :
           /\ last.deltaEdges[k].source.isLabel
           /\ last.deltaEdges[k].target.isLabel
           /\ last.deltaEdges[k].source.label # last.deltaEdges[k].target.label
           /\ {last.deltaEdges[k].source.label, last.deltaEdges[k].target.label}
                  \subseteq Range(last.delta)
    /\ \E i \in 1..Len(edges) :
           /\ edges[i].source # edges[i].target
           /\ {edges[i].source, edges[i].target} \subseteq NodeIds(nodes)

\* ---- what a merge keeps of an edge (SpecMerge)

\* C27 (a re-created edge keeps its relationship): for every edge that had
\* exactly one endpoint in S, a successful merge leaves an edge with that
\* endpoint replaced by the merged node and with the relationship and the
\* label of the edge it replaces.
MergeKeepsRelationship ==
    [][ (last'.op = "merge" /\ last'.ok /\ steps' = steps + 1) =>
          \A i \in 1..Len(edges) :
              (edges[i].source \in last'.S) # (edges[i].target \in last'.S) =>
                  \E j \in 1..Len(edges') :
                      /\ Ends(edges'[j]) = Reparented(edges[i], last'.S, last'.arg)
                      /\ edges'[j].relationship = edges[i].relationship
                      /\ edges'[j].label = edges[i].label
      ]_vars

\* ---- the positions of the layout (SpecLayout)

\* The nodes that share the row of node i, and those of them inserted before it.
RowOf(i) ==
    {j \in 1..Len(nodes) :
        calculateNodeDepth(edges, nodes[j].id) = calculateNodeDepth(edges, nodes[i].id)}

\* C28 (the positions of the layout): after recalculateTreeLayout every node
\* n has y = TREE_ROOT_Y + depth(n) * TREE_VERTICAL_SPACING and
\* x = startX + i * TREE_HORIZONTAL_SPACING, i being the number of nodes of
\* the same depth inserted before n and startX being TREE_ROOT_X_START minus
\* half of max(count * TREE_HORIZONTAL_SPACING, 400), count the number of
\* nodes of that depth; and when the only edge goes from a root V to a node
\* O, O is one TREE_VERTICAL_SPACING below V.
LayoutPositions ==
    last.op = "layout" =>
        /\ \A n \in 1..Len(nodes) :
               LET count  == Cardinality(RowOf(n))
                   i      == Cardinality({j \in RowOf(n) : j < n})
                   width  == IF count * TREE_HORIZONTAL_SPACING > 400
                             THEN count * TREE_HORIZONTAL_SPACING ELSE 400
               IN  /\ nodes[n].y = TREE_ROOT_Y
                                     + calculateNodeDepth(edges, nodes[n].id) * TREE_VERTICAL_SPACING
                   /\ 2 * nodes[n].x = 2 * TREE_ROOT_X_START - width
                                         + 2 * i * TREE_HORIZONTAL_SPACING
        /\ \A v, o \in 1..Len(nodes) :
               (/\ Len(edges) = 1
                /\ edges[1].source = nodes[v].id
                /\ edges[1].target = nodes[o].id
                /\ v # o) =>
                   nodes[o].y = nodes[v].y + TREE_VERTICAL_SPACING

\* A layout has run on a graph whose only edge goes from a root to a child,
\* with a second root in the row of the first.
LayoutPositionsWitness ==
    /\ last.op = "layout"
    /\ Len(nodes) = 3
    /\ Len(edges) = 1
    /\ \E v, o, w \in 1..Len(nodes) :
           /\ edges[1].source = nodes[v].id
           /\ edges[1].target = nodes[o].id
           /\ v # o /\ w # v /\ w # o
           /\ nodes[w].y = nodes[v].y
           /\ nodes[w].x # nodes[v].x
           /\ nodes[o].y # nodes[v].y

\* ---- the hub of the finalize fallback (SpecHub)

\* The graph a fallback of the finalize pass starts from: the store's edges,
\* after the edges of the oracle that were accepted when it answered.
FallbackEdges ==
    IF last'.kind = "parsed"
    THEN addProposedEdges(nodes, edges, last'.deltaEdges, 1, nextEdgeId).edges
    ELSE edges

\* The number of edges of E that have node id as source or as target.
EdgeCount(E, id) == Cardinality({k \in 1..Len(E) : E[k].source = id \/ E[k].target = id})

\* C29 (the hub of the fallback): when a fallback of the finalize pass runs
\* on a graph with an isolated node, the hub is the first node in insertion
\* order among the nodes with the highest edge count, and for each node that
\* was isolated exactly one edge is added: from the hub to that node, with
\* relationship "relates to"; no other edge is added.
FallbackHub ==
    [][ (/\ last'.op = "finalize-graph"
         /\ last'.kind \in {"throws", "empty", "parsed"}
         /\ steps' = steps + 1) =>
          \A E1 \in {FallbackEdges} :
          LET isolated == {i \in 1..Len(nodes) : EdgeCount(E1, nodes[i].id) = 0}
              highest  == {i \in 1..Len(nodes) :
                              \A j \in 1..Len(nodes) :
                                  EdgeCount(E1, nodes[j].id) <= EdgeCount(E1, nodes[i].id)}
              hub      == CHOOSE i \in highest : \A j \in highest : i <= j
              added    == (Len(E1) + 1)..Len(edges')
          IN  isolated # {} =>
                  /\ Len(edges') >= Len(E1)
                  /\ \A k \in 1..Len(E1) : edges'[k] = E1[k]
                  /\ \A k \in added :
                         /\ edges'[k].source = nodes[hub].id
                         /\ edges'[k].relationship = "relates to"
                         /\ \E i \in isolated : edges'[k].target = nodes[i].id
                  /\ \A i \in isolated :
                         Cardinality({k \in added : edges'[k].target = nodes[i].id}) = 1
      ]_vars

\* A fallback has run on a graph of four nodes in which the first and the
\* last node were isolated and the second and the third node shared the
\* highest edge count, the edge going from the third to the second: the two
\* edges added go from the second node to the first and to the last.
FallbackHubWitness ==
    /\ last.op = "finalize-graph"
    /\ last.kind = "throws"
    /\ last.isolated = 2
    /\ Len(nodes) = 4
    /\ Len(edges) = 3
    /\ edges[1].source = 3 /\ edges[1].target = 2
    /\ edges[2].source = 2 /\ edges[2].target = 1
    /\ edges[3].source = 2 /\ edges[3].target = 4
    /\ edges[3].relationship = "relates to"

\* ---- what a merge does to the nodes (SpecStore)

\* C30 (a merge replaces the nodes of S by one node): a successful
\* mergeNodes(S, label) leaves exactly one new node, of importance "large",
\* leaves no node whose id is in S, leaves every other node in place, and
\* leaves, for every edge that had exactly one endpoint in S, the edge
\* re-created for it.
MergeReplacesNodes ==
    [][ (last'.op = "merge" /\ last'.ok /\ steps' = steps + 1) =>
          LET others == SelectSeq(nodes, LAMBDA n : n.id \notin last'.S)
          IN  /\ \A i \in 1..Len(nodes') : nodes'[i].id \notin last'.S
              /\ Len(nodes') = Len(others) + 1
              /\ \A i \in 1..Len(others) : nodes'[i] = others[i]
              /\ nodes'[Len(nodes')].id = last'.arg
              /\ nodes'[Len(nodes')].importance = "large"
              /\ last'.arg \notin NodeIds(nodes)
              /\ \A i \in 1..Len(edges) :
                     (edges[i].source \in last'.S) # (edges[i].target \in last'.S) =>
                         \E j \in 1..Len(edges') :
                             Ends(edges'[j]) = Reparented(edges[i], last'.S, last'.arg)
      ]_vars

\* ---- the grid allocator (SpecGrid)

\* C31 (grid positions do not coincide): after any sequence of addNode calls
\* without a position and removeNode calls, no two nodes of the graph have
\* the same (x, y) position.
GridPositionsDistinct ==
    \A i, j \in 1..Len(nodes) :
        i # j => ~(nodes[i].x = nodes[j].x /\ nodes[i].y = nodes[j].y)

\* ---- the spiral placement (SpecSpiral)

\* The 480 candidates in the order the loops visit them: 24 angles for each
\* of 20 radius steps.
Candidate(k) == SpiralPoint((k - 1) \div 24, (k - 1) % 24)

\* The box of a candidate, grown by the padding on every side, meets the box
\* of node n.
InflatedBoxMeets(c, size, n) ==
    /\ c.x - Px(40) < n.x + n.w
    /\ n.x < c.x + size.width + Px(40)
    /\ c.y - Px(40) < n.y + n.h
    /\ n.y < c.y + size.height + Px(40)

\* C32 (the spiral search): the position findNonOverlappingPosition gives a
\* node is the first of the 20 x 24 candidates, in the order of the loops,
\* whose box grown by 40 px meets the box of no node of the graph; when no
\* candidate qualifies it is the point 40 px to the right of the node
\* inserted last, or (100, 100) when the graph is empty.
SpiralFirstFree ==
    [][ (last'.op = "add-node" /\ last'.kind = "spiral" /\ steps' = steps + 1) =>
          LET new  == nodes'[Len(nodes')]
              size == [width |-> new.w, height |-> new.h]
          IN  \A free \in {{k \in 1..480 :
                                \A i \in 1..Len(nodes) :
                                    ~InflatedBoxMeets(Candidate(k), size, nodes[i])}} :
              /\ Len(nodes') = Len(nodes) + 1
              /\ size = getSizeForImportance(new.importance)
              /\ IF free # {}
                 THEN \E k \in free :
                          /\ \A j \in free : k <= j
                          /\ new.x = Candidate(k).x /\ new.y = Candidate(k).y
                 ELSE IF Len(nodes) > 0
                 THEN /\ new.x = nodes[Len(nodes)].x + nodes[Len(nodes)].w + Px(40)
                      /\ new.y = nodes[Len(nodes)].y
                 ELSE new.x = Px(100) /\ new.y = Px(100)
      ]_vars

\* The spiral has placed a node beyond its first ring, around nodes that
\* were in its way.
SpiralFirstFreeWitness ==
    /\ last.op = "add-node"
    /\ last.kind = "spiral"
    /\ Len(nodes) = 2
    /\ nodes[2].x # Px(500)
    /\ nodes[2].y # Px(300)

\* The spiral found no candidate on the lattice and placed the node to the
\* right of the node inserted last.
SpiralFallbackWitness ==
    /\ last.op = "add-node"
    /\ last.kind = "spiral"
    /\ Len(nodes) = 127
    /\ nodes[127].x = nodes[126].x + nodes[126].w + Px(40)
    /\ nodes[127].y = nodes[126].y

\* ---- what a removal leaves alone (SpecLookup)

\* T is S without one element that has the id, the others as they were and
\* in the order they were in.
OneRemoved(S, T, id) ==
    /\ Len(T) = Len(S) - 1
    /\ \E i \in 1..Len(S) :
           /\ S[i].id = id
           /\ \A j \in 1..(i - 1) : T[j] = S[j]
           /\ \A j \in i..Len(T) : T[j] = S[j + 1]

\* T holds the elements of S that satisfy keep, as they were and in the
\* order they were in.
Kept(S, T, keep(_)) ==
    \E f \in [1..Len(T) -> 1..Len(S)] :
        /\ \A j \in 1..Len(T) : T[j] = S[f[j]] /\ keep(S[f[j]])
        /\ \A j, k \in 1..Len(T) : j < k => f[j] < f[k]
        /\ \A i \in 1..Len(S) : keep(S[i]) => \E j \in 1..Len(T) : f[j] = i

\* C33 (a removal changes nothing else): removeNode(n) that returns true
\* removes one node with id n and exactly the edges that have n as source or
\* target; removeEdge(e) that returns true removes one edge with id e and no
\* node; every other node and edge keeps its fields and its place in the
\* order.
RemovalFrame ==
    [][ (steps' = steps + 1 /\ last'.ok) =>
          /\ last'.op = "remove-node" =>
                 /\ OneRemoved(nodes, nodes', last'.arg)
                 /\ Kept(edges, edges',
                         LAMBDA e : e.source # last'.arg /\ e.target # last'.arg)
          /\ last'.op = "remove-edge" =>
                 /\ OneRemoved(edges, edges', last'.arg)
                 /\ nodes' = nodes
      ]_vars

\* removeNode has removed the only node and one of two edges: the edge that
\* was incident to it is gone, the other edge is still there.
RemovalFrameWitness ==
    /\ last.op = "remove-node"
    /\ last.ok
    /\ nextEdgeId = 3
    /\ Len(edges) = 1
    /\ nextNodeId = 2
    /\ nodes = <<>>

\* ---- the edges of a refinement (SpecRefine)

\* C34 (a refinement adds no dangling edge): after a refinement has been
\* applied, every edge it added has a source and a target that are ids of
\* nodes of the graph.
RefineEdgesResolved ==
    [][ (/\ last'.op = "refine-graph"
         /\ last'.kind = "parsed"
         /\ steps' = steps + 1) =>
          \A j \in 1..Len(edges') :
              edges'[j].id >= nextEdgeId =>
                  /\ edges'[j].source \in NodeIds(nodes')
                  /\ edges'[j].target \in NodeIds(nodes')
      ]_vars

\* ---- the boxes of the layout (SpecLayout)

\* The boxes of nodes a and b, of sizes sa and sb, have a point in common
\* (positions in pixels, sizes in tenths of a pixel).
BoxesOverlap(a, sa, b, sb) ==
    /\ Px(a.x) < Px(b.x) + sb.width
    /\ Px(b.x) < Px(a.x) + sa.width
    /\ Px(a.y) < Px(b.y) + sb.height
    /\ Px(b.y) < Px(a.y) + sa.height

\* C35 (the layout leaves no overlap): after recalculateTreeLayout, whatever
\* importance each node has, no two nodes have overlapping boxes, the box
\* of a node being its position and the size of its importance.
LayoutNoOverlap ==
    last.op = "layout" =>
        \A importances \in [1..Len(nodes) -> {"small", "medium", "large"}] :
            \A i, j \in 1..Len(nodes) :
                i # j => ~BoxesOverlap(nodes[i], getSizeForImportance(importances[i]),
                                       nodes[j], getSizeForImportance(importances[j]))

\* A layout has run on three nodes joined by two edges, two of them in one
\* row and the third in another row.
LayoutNoOverlapWitness ==
    /\ last.op = "layout"
    /\ Len(nodes) = 3
    /\ Len(edges) = 2
    /\ \E i, j, k \in 1..3 :
           /\ i # j
           /\ nodes[i].y = nodes[j].y
           /\ nodes[k].y # nodes[i].y

\* ---- the finalize pass and the handlers that run while it waits (SpecStale)

\* C36 (finalize adds no dangling edge): every edge the finalize-graph
\* handler adds after its wait for the oracle has both endpoints among the
\* nodes the graph has when the edge is added, whichever clear-graph,
\* restructure-graph and remove-node handlers ran during the wait.
FinalizeEdgesResolved ==
    [][ (/\ last'.op = "finalize-graph"
         /\ eventLoop.finalize.waiting
         /\ ~eventLoop'.finalize.waiting) =>
          \A j \in 1..Len(edges') :
              edges'[j].id >= nextEdgeId =>
                  /\ edges'[j].source \in NodeIds(nodes)
                  /\ edges'[j].target \in NodeIds(nodes)
      ]_vars

\* ---- the edges of the fallback (SpecHub)

\* C37 (the fallback adds no self-loop): every edge the fallback of the
\* finalize pass adds when the oracle call has failed joins two distinct
\* nodes, on every non-empty graph.
FallbackNoSelfLoop ==
    [][ (/\ last'.op = "finalize-graph"
         /\ last'.kind \in {"throws", "empty"}
         /\ steps' = steps + 1) =>
          \A j \in (Len(edges) + 1)..Len(edges') :
              edges'[j].source # edges'[j].target
      ]_vars

\* ---- OpenRouterService.chat (SpecChatFair)

ChatCalls == eventLoop.openRouter.calls

\* What the claim expects a call with this model argument to contact.
ExpectedModels(model) ==
    IF model \in {"undefined", ""} THEN paidModels \o freeModels ELSE <<model>>

\* The requests of every call go to the expected models in their order, one
\* each; a call that returned had every request but its last fail; a call
\* threw 'All models failed' only after a failed request to every model, and
\* threw anything else only before its first request.
ChatOrder ==
    \A i \in 1..Len(ChatCalls) :
        LET c        == ChatCalls[i]
            expected == ExpectedModels(c.model)
        IN  /\ Len(c.contacted) <= Len(expected)
            /\ c.contacted = SubSeq(expected, 1, Len(c.contacted))
            /\ c.failures <= Len(c.contacted)
            /\ c.pc = "returned" =>
                   /\ c.contacted # <<>>
                   /\ c.failures = Len(c.contacted) - 1
            /\ c.pc = "thrown" =>
                   IF c.result = "All models failed. Please try again later."
                   THEN c.contacted = expected /\ c.failures = Len(expected)
                   ELSE /\ c.result = "OpenRouter API key not configured"
                        /\ c.contacted = <<>>

\* Every call made comes to an end.
ChatTerminates ==
    \A i \in 1..MaxChatCalls :
        (Len(ChatCalls) >= i)
            ~> (Len(ChatCalls) >= i /\ ChatCalls[i].pc \in {"returned", "thrown"})

RequestsSent(o) == {<<i, k>> \in (1..Len(o.calls)) \X (1..Len(paidModels \o freeModels)) :
                        k <= Len(o.calls[i].contacted)}

\* C39 (requests are minRequestInterval apart): whenever a request is sent
\* to OpenRouter after an earlier one, at least minRequestInterval has passed
\* since the earlier one was sent, whichever chat calls are in flight.
ThrottleSpacing ==
    [][ (/\ RequestsSent(eventLoop.openRouter) # {}
         /\ RequestsSent(eventLoop'.openRouter) # RequestsSent(eventLoop.openRouter)) =>
            eventLoop.openRouter.since >= minRequestInterval
      ]_vars

====
